---- MODULE Spec2Model ----
(***************************************************************************)
(* A model of the MODO archive of modos (src/src/modos): the metadata tree *)
(* kept in a zarr store, the consolidated snapshot through which the tree  *)
(* is read, the data files of the storage backend, and the lifecycle       *)
(* operations add_element, update_element and remove_element of api.py.    *)
(*                                                                         *)
(* Reading conventions                                                     *)
(*  - An element id is a record [t |-> type, n |-> local id]; t = "" is a  *)
(*    bare (unprefixed) id.  "sample/s1" is K("sample", "s1").             *)
(*  - An attribute group is a record with one field per attribute.  A      *)
(*    scalar attribute that is not stored is "", a list attribute is a     *)
(*    tagged value: absent, None (JSON null) or a list of ids.             *)
(*  - zarr reads: MODO.zarr re-opens the root group, whose zarr.json       *)
(*    carries the consolidated metadata written by the last                *)
(*    zarr.consolidate_metadata; indexing it (self.zarr[id]) and           *)
(*    MODO.metadata (zarr.open_consolidated) answer from that snapshot,    *)
(*    the root's own attributes are read fresh.  Attribute writes go to    *)
(*    the store: the group's whole attribute map, as the handle holds it.  *)
(***************************************************************************)
EXTENDS Naturals, Sequences, FiniteSets, TLC

VARIABLES
    modo,   \* the archive: root attributes, store, consolidated view, files
    prev,   \* the archive as it was when the last operation was called
    last,   \* the last operation: its arguments, its error, the calls it made
    nops,   \* operations called so far
    writers \* the calls of add_element in progress, each at its own step

vars == <<modo, prev, last, nops, writers>>

(***************************************************************************)
(* Bounds                                                                  *)
(***************************************************************************)
MaxOps == 2

(***************************************************************************)
(* Identifiers, types and the schema table                                 *)
(***************************************************************************)
K(t, n) == [t |-> t, n |-> n]

NoId == K("", "")

RootId == "ex"

\* The elements the operations are called with.
ElemKeys ==
    { K("sample", "s1"), K("sample", "s2"), K("assay", "a1"),
      K("data", "d1"), K("reference", "r1") }

\* UserElementType.from_object / get_target_class: container name <-> class
ClassOf(t) ==
    CASE t = "sample" -> "Sample"
      [] t = "assay" -> "Assay"
      [] t = "data" -> "DataEntity"
      [] t = "reference" -> "ReferenceGenome"
      [] OTHER -> "Unknown"

\* ElementType.from_model_name
from_model_name(c) ==
    CASE c = "Sample" -> "sample"
      [] c = "Assay" -> "assay"
      [] c = "DataEntity" -> "data"
      [] c = "ReferenceGenome" -> "reference"
      [] c = "ReferenceSequence" -> "sequence"
      [] OTHER -> "unknown"

\* get_haspart_property: the sub-property of has_part whose range is the class
get_haspart_property(c) ==
    CASE c = "Assay" -> "has_assay"
      [] c = "Sample" -> "has_sample"
      [] c = "DataEntity" -> "has_data"
      [] c = "ReferenceGenome" -> "has_reference"
      [] c = "ReferenceSequence" -> "has_sequence"
      [] OTHER -> "none"

\* get_slot_range of a has-part property
get_slot_range(p) ==
    CASE p = "has_assay" -> "Assay"
      [] p = "has_sample" -> "Sample"
      [] p = "has_data" -> "DataEntity"
      [] p = "has_reference" -> "ReferenceGenome"
      [] OTHER -> "ReferenceSequence"

\* parent_type.__match_args__ restricted to the has-part slots of the class
HasPartSlots(c) ==
    CASE c = "MODO" -> {"has_assay"}
      [] c = "Assay" -> {"has_sample", "has_data"}
      [] c = "DataEntity" -> {"has_sample", "has_reference"}
      [] c = "ReferenceGenome" -> {"has_sequence"}
      [] OTHER -> {}

\* The has-part attributes an attribute group of the model can hold.
HasPartNames == <<"has_assay", "has_sample", "has_data", "has_reference">>

\* is_full_id: the id starts with a type prefix
is_full_id(id) == id.t # ""

(***************************************************************************)
(* Attribute values and attribute groups                                   *)
(***************************************************************************)
AbsentL == [k |-> "absent", l |-> <<>>]
NoneL == [k |-> "none", l |-> <<>>]
ListL(q) == [k |-> "list", l |-> q]

InSeq(x, q) == \E i \in 1..Len(q) : q[i] = x

\* A zarr group that does not exist.
NoGroup ==
    [ present |-> FALSE, type |-> "", description |-> "", data_path |-> "",
      data_checksum |-> "", has_assay |-> AbsentL, has_sample |-> AbsentL,
      has_data |-> AbsentL, has_reference |-> AbsentL ]

\* A zarr group that exists and has no attribute.
EmptyGroup == [NoGroup EXCEPT !.present = TRUE]

(***************************************************************************)
(* Files                                                                   *)
(***************************************************************************)
Paths == {"p1", "p2"}
NoFile == "-"

\* add_suffix(path, ".c4gh") and remove_suffix(path, ".c4gh")
add_suffix(p) ==
    CASE p = "p1" -> "p1.c4gh"
      [] p = "p2" -> "p2.c4gh"
      [] OTHER -> p

remove_suffix(p) ==
    CASE p = "p1.c4gh" -> "p1"
      [] p = "p2.c4gh" -> "p2"
      [] OTHER -> p

\* The paths at which the archive can hold a file.
StoredPaths == Paths \cup {add_suffix(p) : p \in Paths}

\* Source files outside the archive: their bytes, and whether a companion
\* index file lies next to them.
NoSrc == [c |-> "-", idx |-> FALSE]
Sources == { [c |-> "c1", idx |-> TRUE], [c |-> "c2", idx |-> FALSE] }

\* compute_checksum: the BLAKE2b digest of the bytes
compute_checksum(c) ==
    CASE c = "c1" -> "h1"
      [] c = "c2" -> "h2"
      [] c = "e1" -> "g1"
      [] c = "e2" -> "g2"
      [] OTHER -> "h0"

\* crypt4gh: the bytes encrypt_file and decrypt_file write for the bytes
\* they read, and the test for the crypt4gh header
encrypt_bytes(c) == IF c = "c1" THEN "e1" ELSE "e2"

decrypt_bytes(c) == IF c = "e1" THEN "c1" ELSE "c2"

is_encrypted(c) == c \in {"e1", "e2"}

\* A path handed to the storage: pre = it was built as storage.path / p.
Rel(p) == [pre |-> FALSE, p |-> p]
Pre(p) == [pre |-> TRUE, p |-> p]

\* LocalStorage: self.path / target.  Joining an absolute target replaces
\* the left side; a relative storage.path joined to itself names a path
\* below the archive that holds no file.
Located(m, target) ==
    IF target.pre /\ ~m.abs THEN NoFile ELSE target.p

\* LocalStorage.exists
exists(m, target) ==
    Located(m, target) # NoFile /\ m.files[Located(m, target)] # NoFile

\* A put that opens the target for exclusive creation: an existing file keeps
\* its bytes.
put_exclusive(m, c, p) ==
    IF m.files[p] = NoFile THEN [m EXCEPT !.files[p] = c] ELSE m

\* LocalStorage.put: the file at target gets the bytes of the stream
put(m, c, p) == [m EXCEPT !.files[p] = c]

\* put of a companion index file at the index path of p
put_index(m, p) == [m EXCEPT !.idx = @ \cup {p}]

\* LocalStorage.remove: unlink if the file exists, else nothing
remove(m, target) ==
    IF exists(m, target)
    THEN [m EXCEPT !.files[Located(m, target)] = NoFile]
    ELSE m

\* remove of the companion index file of target
remove_index(m, target) ==
    IF Located(m, target) # NoFile
    THEN [m EXCEPT !.idx = @ \ {Located(m, target)}]
    ELSE m

\* get_index on a path of the archive: the companion index, if there is one
get_index(m, target) ==
    Located(m, target) # NoFile /\ Located(m, target) \in m.idx

\* A move that copies and leaves the source in place.
move_keeping_source(m, src, dst) == [m EXCEPT !.files[dst] = m.files[src]]

\* LocalStorage.move (shutil.move): the source must exist
move(m, src, dst) ==
    [m EXCEPT !.files = [@ EXCEPT ![src] = NoFile, ![dst] = m.files[src]]]

move_index(m, src, dst) == [m EXCEPT !.idx = (@ \ {src}) \cup {dst}]

(***************************************************************************)
(* helpers/schema.py: relationships                                        *)
(***************************************************************************)
\* set_haspart_relationship assigning the child instead of appending it.
set_haspart_overwriting(child_class, child_path, g) ==
    LET has_prop == get_haspart_property(child_class) IN
    IF g.type = ""
    THEN [g |-> g, err |-> "TypeError", wrote |-> FALSE]
    ELSE IF has_prop \notin HasPartSlots(g.type)
    THEN [g |-> g, err |-> "InvalidRelationship", wrote |-> FALSE]
    ELSE IF g[has_prop].k = "none"
    THEN [g |-> g, err |-> "TypeError", wrote |-> FALSE]
    ELSE [ g |-> [g EXCEPT ![has_prop] = ListL(<<child_path>>)],
           err |-> "", wrote |-> TRUE ]

\* set_haspart_relationship without the check of the parent's slots: the
\* attribute is written on any parent.
set_haspart_unchecked(child_class, child_path, g) ==
    LET has_prop == get_haspart_property(child_class) IN
    IF g.type = ""
    THEN [g |-> g, err |-> "TypeError", wrote |-> FALSE]
    ELSE IF g[has_prop].k = "none"
    THEN [g |-> g, err |-> "TypeError", wrote |-> FALSE]
    ELSE [ g |-> [g EXCEPT ![has_prop] = ListL(Append(g[has_prop].l, child_path))],
           err |-> "", wrote |-> TRUE ]

\* set_haspart_relationship on the attributes g of the parent group handle:
\* the attributes after the call (res.g), the error raised, and whether the
\* handle wrote its attributes to the store.
set_haspart_relationship(child_class, child_path, g) ==
    LET has_prop == get_haspart_property(child_class) IN
    IF g.type = ""
    THEN [g |-> g, err |-> "TypeError", wrote |-> FALSE]
    ELSE IF has_prop \notin HasPartSlots(g.type)
    THEN [g |-> g, err |-> "InvalidRelationship", wrote |-> FALSE]
    ELSE LET g1 == IF g[has_prop].k = "absent"
                   THEN [g EXCEPT ![has_prop] = ListL(<<>>)]
                   ELSE g
         IN IF g1[has_prop].k = "none"
            THEN [g |-> g1, err |-> "TypeError", wrote |-> FALSE]
            ELSE [ g |-> [g1 EXCEPT ![has_prop] =
                                      ListL(Append(g1[has_prop].l, child_path))],
                   err |-> "", wrote |-> TRUE ]

\* update_haspart_id on one has-part list: bare ids get the type of the
\* property's range as prefix
update_haspart_id(has_part, ids) ==
    [ i \in 1..Len(ids) |->
        IF is_full_id(ids[i])
        THEN ids[i]
        ELSE K(from_model_name(get_slot_range(has_part)), ids[i].n) ]

(***************************************************************************)
(* helpers/schema.py: DataElement                                          *)
(* dm is the wrapped model record: [data_path, data_checksum].             *)
(***************************************************************************)
\* _update_checksum that computes the digest and does not store it.
DataElement_checksum_not_stored(dm, src) == dm

\* DataElement._update_checksum
DataElement_update_checksum(dm, src) ==
    IF compute_checksum(src.c) # dm.data_checksum
    THEN [dm EXCEPT !.data_checksum = compute_checksum(src.c)]
    ELSE dm

\* DataElement.add_file
add_file(m, dm, src, target_path) ==
    LET m1 == put(m, src.c, target_path)
        m2 == IF src.idx THEN put_index(m1, target_path) ELSE m1
        dm1 == DataElement_update_checksum(dm, src)
    IN [ m |-> m2,
         dm |-> [dm1 EXCEPT !.data_path = target_path],
         err |-> "",
         calls |-> IF src.idx THEN <<"put", "put">> ELSE <<"put">> ]

\* DataElement.move_file
move_file(m, dm, target_path) ==
    LET source_path == dm.data_path IN
    IF ~exists(m, Rel(source_path))
    THEN [m |-> m, dm |-> dm, err |-> "FileNotFound", calls |-> <<>>]
    ELSE LET m1 == move(m, source_path, target_path) IN
         IF get_index(m1, Rel(source_path))
         THEN [ m |-> move_index(m1, source_path, target_path), dm |-> dm,
                err |-> "", calls |-> <<"move", "move">> ]
         ELSE [m |-> m1, dm |-> dm, err |-> "", calls |-> <<"move">>]

\* DataElement.remove_file
remove_file(m, rm_path) ==
    LET m1 == remove(m, rm_path) IN
    IF get_index(m1, rm_path)
    THEN [m |-> remove_index(m1, rm_path), calls |-> <<"remove", "remove">>]
    ELSE [m |-> m1, calls |-> <<"remove">>]

\* An update_file that does not compare checksums: a source file given with
\* the call is always written.
update_file_always_put(m, dm, new_path, source_file) ==
    IF dm.data_path = ""
    THEN [m |-> m, dm |-> dm, err |-> "TypeError", calls |-> <<>>]
    ELSE IF source_file # NoSrc
    THEN add_file(m, dm, source_file, new_path)
    ELSE IF new_path # dm.data_path
    THEN move_file(m, dm, new_path)
    ELSE [m |-> m, dm |-> dm, err |-> "", calls |-> <<>>]

\* DataElement.update_file
update_file(m, dm, new_path, source_file) ==
    IF dm.data_path = ""
    THEN [m |-> m, dm |-> dm, err |-> "TypeError", calls |-> <<>>]
    ELSE
    LET old_path == dm.data_path
        path_has_changed == new_path # old_path
        old_checksum == dm.data_checksum
        dm1 == IF source_file # NoSrc
               THEN DataElement_update_checksum(dm, source_file)
               ELSE dm
        checksum_has_changed ==
            IF source_file # NoSrc
            THEN old_checksum # dm1.data_checksum
            ELSE FALSE
    IN CASE ~path_has_changed /\ ~checksum_has_changed ->
              [m |-> m, dm |-> dm1, err |-> "", calls |-> <<>>]
         [] ~path_has_changed /\ checksum_has_changed ->
              add_file(m, dm1, source_file, new_path)
         [] path_has_changed /\ ~checksum_has_changed ->
              move_file(m, dm1, new_path)
         [] OTHER ->
              LET a == add_file(m, dm1, source_file, new_path)
                  r == remove_file(a.m, Pre(old_path))
              IN [ m |-> r.m, dm |-> a.dm, err |-> "",
                   calls |-> a.calls \o r.calls ]

(***************************************************************************)
(* api.py: the MODO facade.  An archive m is a record                      *)
(*   abs    whether storage.path is an absolute path                       *)
(*   dir    whether the archive directory exists, zroot whether data.zarr   *)
(*          exists in it, containers the container groups below the root   *)
(*   root   the attributes of the root group                               *)
(*   store  the element groups as the zarr store holds them                *)
(*   view   the element groups of the consolidated metadata                *)
(*   files  the bytes of the data file at each path, idx the paths that    *)
(*          have a companion index file, cidx those whose index file has   *)
(*          an encrypted copy.                                             *)
(* An operation yields [m, err, calls]: the archive it leaves, the error   *)
(* it raised ("" when it returned) and the storage and tree calls it made. *)
(***************************************************************************)
Result(m, err, calls) == [m |-> m, err |-> err, calls |-> calls]

\* ElementType: the containers init_zarr creates below the root
ElementTypes == {"sample", "assay", "data", "reference", "sequence"}

\* A target path at which nothing exists.
Absent(abs) ==
    [ abs |-> abs,
      dir |-> FALSE,
      zroot |-> FALSE,
      containers |-> {},
      root |-> NoGroup,
      store |-> [k \in ElemKeys |-> NoGroup],
      view |-> [k \in ElemKeys |-> NoGroup],
      files |-> [p \in StoredPaths |-> NoFile],
      idx |-> {},
      cidx |-> {} ]

\* A target path at which an empty directory exists.
EmptyDir(abs) == [Absent(abs) EXCEPT !.dir = TRUE]

\* The groups f without those of S.
RECURSIVE Cleared(_, _)
Cleared(f, S) ==
    IF S = {}
    THEN f
    ELSE LET k == CHOOSE x \in S : TRUE
         IN Cleared([f EXCEPT ![k] = NoGroup], S \ {k})

\* zarr.consolidate_metadata: the snapshot is taken by walking the tree
\* from the root, container by container
consolidate_metadata(m) ==
    [m EXCEPT !.view = Cleared(m.store, {k \in ElemKeys : k.t \notin m.containers})]

\* LocalStorage.__init__: an existing data.zarr is opened (zarr.open makes
\* the root group if the directory holds none), else the directory is made
\* and init_zarr creates the root group and a container for each element
\* type.
LocalStorage_init(m) ==
    IF m.zroot
    THEN IF m.root.present THEN m ELSE [m EXCEPT !.root = EmptyGroup]
    ELSE [ m EXCEPT !.dir = TRUE, !.zroot = TRUE, !.containers = ElementTypes,
                    !.root = EmptyGroup ]

\* An emptiness test that takes every store for empty.
empty_unchecked(m) == TRUE

\* Storage.empty: the root group has no attribute
empty(m) == m.root.type = ""

\* The arguments of MODO.__init__ that reach the root record.
RootArgs(description, has_assay) ==
    [description |-> description, has_assay |-> has_assay]

NoArgs == RootArgs("", <<>>)

\* MODO.__init__: the storage is opened (or initialised); the root record is
\* written, each non-empty field as an attribute, and consolidated only
\* when the store is empty.
MODO_init(m, args) ==
    LET m1 == LocalStorage_init(m) IN
    IF empty(m1)
    THEN consolidate_metadata(
           [ m1 EXCEPT !.root =
               [ EmptyGroup EXCEPT
                   !.type = "MODO",
                   !.description = args.description,
                   !.has_assay =
                       IF args.has_assay = <<>>
                       THEN AbsentL
                       ELSE ListL(update_haspart_id("has_assay", args.has_assay)) ] ])
    ELSE m1

\* MODO.__init__ on a path where nothing exists, with the default arguments
NewModo(abs) == MODO_init(Absent(abs), NoArgs)

\* MODO(path, ...) called by a user: the archive it leaves and the calls
\* it made
MODO_open(m, args) ==
    Result(MODO_init(m, args), "",
           (IF ~m.zroot THEN <<"init_zarr">> ELSE <<>>)
             \o (IF empty(LocalStorage_init(m))
                 THEN <<"set_attrs", "consolidate">>
                 ELSE <<>>))

\* The duplicate check on the keys of the view themselves: a key
\* "<type>/<id>" never equals a local id, the root's key does.
metadata_full_ids(m) == {RootId}

\* A flat view that leaves the document object itself out.
metadata_names_of_elements(m) == {k.n : k \in {x \in ElemKeys : m.view[x].present}}

\* MODO.metadata: the keys of the flat view, root first
metadata_keys(m) == {k \in ElemKeys : m.view[k].present}

\* [Path(id).name for id in self.metadata.keys()]
metadata_names(m) == {RootId} \cup {k.n : k \in metadata_keys(m)}

\* The attribute map add_metadata_group writes for an element: the fields
\* json_dumper keeps (empty lists and None are dropped).
ElementAttrs(e, dm) ==
    [ EmptyGroup EXCEPT
        !.type = ClassOf(e.t),
        !.description = e.description,
        !.data_path = dm.data_path,
        !.data_checksum = dm.data_checksum,
        !.has_sample = IF e.has_sample = <<>>
                       THEN AbsentL
                       ELSE ListL(update_haspart_id("has_sample", e.has_sample)) ]

\* add_metadata_group, update_date and consolidate_metadata: the tail of
\* _add_any_element
AddTail(m, e, dm, calls) ==
    LET key == K(e.t, e.n) IN
    IF m.store[key].present
    THEN Result(m, "ContainsGroup", calls)
    ELSE Result(
           consolidate_metadata([m EXCEPT !.store[key] = ElementAttrs(e, dm)]),
           "",
           calls \o <<"create_group", "set_attrs", "update_date", "consolidate">>)

\* MODO._add_any_element (MODO.add_element)
add_element(m, e, source_file, part_of) ==
    IF e.n \in metadata_names(m)
    THEN Result(m, "DuplicateId", <<>>)
    ELSE
    LET dm0 == [data_path |-> e.data_path, data_checksum |-> ""]
        f == IF source_file # NoSrc /\ e.t = "reference"
             THEN [ m |-> put(m, source_file.c, e.data_path), dm |-> dm0,
                    err |-> "", calls |-> <<"put">> ]
             ELSE IF source_file # NoSrc /\ e.t = "data"
             THEN add_file(m, dm0, source_file, e.data_path)
             ELSE [m |-> m, dm |-> dm0, err |-> "", calls |-> <<>>]
        linked == e.t = "assay" \/ part_of # NoId
    IN
    IF e.t \notin f.m.containers
    THEN Result(f.m, "KeyError", f.calls)
    ELSE IF ~linked
    THEN AddTail(f.m, e, f.dm, f.calls)
    ELSE IF part_of # NoId /\ ~f.m.view[part_of].present
    THEN Result(f.m, "KeyError", f.calls)
    ELSE
    LET parent_group == IF part_of # NoId THEN f.m.view[part_of] ELSE f.m.root
        r == set_haspart_relationship(ClassOf(e.t), K(e.t, e.n), parent_group)
        m1 == IF part_of # NoId
              THEN [f.m EXCEPT !.store[part_of] = r.g]
              ELSE [f.m EXCEPT !.root = r.g]
    IN
    IF r.err # ""
    THEN Result(f.m, r.err, f.calls)
    ELSE AddTail(m1, e, f.dm, f.calls \o <<"set_attrs">>)

\* The has-part attributes of g that hold element_id in a list
HitKeys(g, element_id) ==
    { i \in 1..Len(HasPartNames) :
        /\ g[HasPartNames[i]].k = "list"
        /\ InSeq(element_id, g[HasPartNames[i]].l) }

\* A scan that changes the lists it reads and writes nothing back.
ClearLinksNotWritten(g, element_id) == g

\* self.zarr[elem].attrs[key] = value.remove(element_id) for every key of
\* elem that holds element_id: list.remove returns None, and every write is
\* made through a fresh handle on the consolidated attributes g.
ClearLinks(g, element_id) ==
    LET hits == HitKeys(g, element_id)
        lastkey == CHOOSE i \in hits : \A j \in hits : j <= i
    IN [g EXCEPT ![HasPartNames[lastkey]] = NoneL]

\* A lookup that finds a group under every id.
zarr_contains_any(m, element_id) == TRUE

\* self.zarr[element_id] finds a group (it raises KeyError otherwise); a
\* bare container name finds the container
zarr_contains(m, element_id) ==
    IF element_id.n = ""
    THEN element_id.t \in m.containers
    ELSE m.view[element_id].present

\* The groups del self.zarr[element_id] deletes: the group and its members
Below(element_id, k) == k = element_id \/ (element_id.n = "" /\ k.t = element_id.t)

\* MODO.remove_element
remove_element(m, element_id) ==
    IF ~zarr_contains(m, element_id)
    THEN Result(m, "KeyError", <<>>)
    ELSE
    LET attrs == IF element_id.n = "" THEN EmptyGroup ELSE m.view[element_id]
        m1 == IF attrs.data_path # "" THEN remove(m, Pre(attrs.data_path)) ELSE m
        c1 == IF attrs.data_path # "" THEN <<"remove">> ELSE <<>>
        m2 == [ m1 EXCEPT
                  !.store = Cleared(@, {k \in ElemKeys : Below(element_id, k)}),
                  !.containers = IF element_id.n = "" THEN @ \ {element_id.t} ELSE @ ]
        linking == {k \in metadata_keys(m2) : HitKeys(m2.view[k], element_id) # {}}
        m3 == [m2 EXCEPT !.store =
                 [k \in ElemKeys |->
                    IF k \in linking
                    THEN ClearLinks(m2.view[k], element_id)
                    ELSE m2.store[k]]]
    IN
    IF HitKeys(m2.root, element_id) # {}
    THEN Result(m2, "KeyError", c1 \o <<"del_group">>)
    ELSE Result(
           consolidate_metadata(m3),
           "",
           c1 \o <<"del_group">>
              \o [i \in 1..Cardinality(linking) |-> "set_attrs"]
              \o <<"update_date", "consolidate">>)

\* A merge that writes every field of the record, the empty ones too.
update_metadata_overwriting(group, new) ==
    [ group EXCEPT
        !.description = new.description,
        !.data_path = new.data_path,
        !.data_checksum = new.data_checksum,
        !.has_sample = IF new.has_sample = <<>>
                       THEN AbsentL
                       ELSE ListL(new.has_sample) ]

\* update_metadata_from_model: the attributes of the group handle after the
\* merge.  A field is written when the record carries a value for it (not
\* None, not []) that differs from the stored one.
update_metadata_from_model(group, new) ==
    LET hs == IF new.has_sample = <<>>
              THEN AbsentL
              ELSE ListL(new.has_sample)
    IN [ group EXCEPT
           !.description = IF new.description # "" THEN new.description ELSE @,
           !.data_path = IF new.data_path # "" THEN new.data_path ELSE @,
           !.data_checksum = IF new.data_checksum # "" THEN new.data_checksum ELSE @,
           !.has_sample = IF hs.k = "list" THEN hs ELSE @ ]

\* The tail of update_element: update_haspart_id, update_metadata_from_model,
\* update_date and consolidate_metadata.  group is the handle opened at the
\* start of the call.
UpdateTail(m, element_id, group, new, calls) ==
    LET new1 == [new EXCEPT !.has_sample = update_haspart_id("has_sample", @)]
        merged == update_metadata_from_model(group, new1)
        m1 == IF merged # group
              THEN [m EXCEPT !.store[element_id] = merged]
              ELSE m
        c1 == IF merged # group THEN <<"set_attrs">> ELSE <<>>
    IN Result(consolidate_metadata(m1), "",
              calls \o c1 \o <<"update_date", "consolidate">>)

\* update_element from the optional re-linking on
UpdateLink(m, element_id, group, new, part_of, calls) ==
    IF part_of = NoId
    THEN UpdateTail(m, element_id, group, new, calls)
    ELSE IF ~m.view[part_of].present
    THEN Result(m, "KeyError", calls)
    ELSE
    LET r == set_haspart_relationship(ClassOf(new.t), K(new.t, new.n),
                                      m.view[part_of])
    IN IF r.err # ""
       THEN Result(m, r.err, calls)
       ELSE UpdateTail([m EXCEPT !.store[part_of] = r.g], element_id, group,
                       new, calls \o <<"set_attrs">>)

\* An instance check that accepts a record of any class.
isinstance_unchecked(new, group) == TRUE

\* isinstance(new, type(element)): the record has the class of the element
isinstance_of_element(new, group) == ClassOf(new.t) = group.type

\* MODO.update_element
update_element(m, element_id, new, source_file, part_of) ==
    LET found == m.view[element_id].present IN
    IF ~found /\ m.store[element_id].present
    THEN Result(m, "ContainsGroup", <<>>)
    ELSE
    LET m0 == IF found THEN m ELSE [m EXCEPT !.store[element_id] = EmptyGroup]
        c0 == IF found THEN <<>> ELSE <<"create_group">>
        group == IF found THEN m.view[element_id] ELSE EmptyGroup
    IN
    IF group.type = ""
    THEN Result(m0, "UnknownClass", c0)
    ELSE IF ~isinstance_of_element(new, group)
    THEN Result(m0, "TypeMismatch", c0)
    ELSE IF group.type = "DataEntity"
    THEN LET u == update_file(m0,
                              [ data_path |-> group.data_path,
                                data_checksum |-> group.data_checksum ],
                              new.data_path, source_file)
         IN IF u.err # ""
            THEN Result(u.m, u.err, c0 \o u.calls)
            ELSE UpdateLink(u.m, element_id, group,
                            [new EXCEPT !.data_checksum = u.dm.data_checksum],
                            part_of, c0 \o u.calls)
    ELSE UpdateLink(m0, element_id, group, new, part_of, c0)

(***************************************************************************)
(* api.py: MODO.from_file.  A declaration is the parsed list of entries,    *)
(* each a record with the arguments (source_file, part_of) of its call;    *)
(* the entry of the root has root = TRUE.                                  *)
(***************************************************************************)
Entry(root, e, source_file, part_of) ==
    [root |-> root, e |-> e, source_file |-> source_file, part_of |-> part_of]

\* sum([ele["element"].get("@type") == "MODO" for ele in element_list])
modo_count(decl) == Cardinality({i \in 1..Len(decl) : decl[i].root})

\* ids = [ele["element"].get("id") for ele in element_list]
declared_ids(decl) == [i \in 1..Len(decl) |-> decl[i].e.n]

\* len(ids) > len(set(ids))
has_duplicates(ids) == \E i, j \in 1..Len(ids) : i < j /\ ids[i] = ids[j]

\* instance_list: the entries that are not the root, in their order
instance_list(decl) == SelectSeq(decl, LAMBDA x : ~x.root)

\* modo_dict: the arguments the declared root gives to MODO(...)
modo_dict(decl) ==
    IF \E i \in 1..Len(decl) : decl[i].root
    THEN RootArgs(decl[CHOOSE i \in 1..Len(decl) : decl[i].root].e.description,
                  <<>>)
    ELSE NoArgs

\* One step of from_file: the call it made, on which id, and its error.
Step(op, id, err) == [op |-> op, id |-> id, err |-> err]

\* modo_ids[inst.id]: the full id under which the archive holds a local id
modo_ids(ids, n) == CHOOSE k \in ids : k.n = n

\* The loop over instance_list: update the ids the archive held when the
\* loop started, add the others; the first error ends from_file.
RECURSIVE build_elements(_, _, _, _, _)

\* The loop after the call for insts[i] returned r: an error ends it
build_next(r, op, id, insts, i, ids, steps) ==
    IF r.err # ""
    THEN Result(r.m, r.err, Append(steps, Step(op, id, r.err)))
    ELSE build_elements(r.m, insts, i + 1, ids, Append(steps, Step(op, id, r.err)))

build_elements(m, insts, i, ids, steps) ==
    IF i > Len(insts)
    THEN Result(m, "", steps)
    ELSE
    LET x == insts[i]
        known == \E k \in ids : k.n = x.e.n
        id == IF known THEN modo_ids(ids, x.e.n) ELSE K(x.e.t, x.e.n)
    IN build_next(IF known
                  THEN update_element(m, id, x.e, x.source_file, x.part_of)
                  ELSE add_element(m, x.e, x.source_file, x.part_of),
                  IF known THEN "update" ELSE "add", id, insts, i, ids, steps)

\* The loop over old_ids, in the order the ids come in
RECURSIVE remove_elements(_, _, _, _)

\* The loop after remove_element(order[i]) returned r: an error ends it
remove_next(r, order, i, steps) ==
    IF r.err # ""
    THEN Result(r.m, r.err, Append(steps, Step("remove", order[i], r.err)))
    ELSE remove_elements(r.m, order, i + 1,
                         Append(steps, Step("remove", order[i], r.err)))

remove_elements(m, order, i, steps) ==
    IF i > Len(order)
    THEN Result(m, "", steps)
    ELSE remove_next(remove_element(m, order[i]), order, i, steps)

\* A selection of old ids that keeps every element.
old_ids_none(ids, decl) == {}

\* old_ids: the ids the archive held that the declaration does not name,
\* the root's excepted
old_ids(ids, decl) ==
    { k \in ids :
        /\ k.n \notin {declared_ids(decl)[i] : i \in 1..Len(decl)}
        /\ k.n # RootId }

\* if not no_remove: the old ids are removed once every instance was
\* added or updated; b is what the loop over instance_list returned
remove_old(b, no_remove, order) ==
    IF b.err # "" \/ no_remove
    THEN b
    ELSE remove_elements(b.m, order, 1, b.calls)

\* A from_file that opens the archive before it checks the declaration.
from_file_checking_late(m, decl, no_remove, order) ==
    IF modo_count(decl) > 1
    THEN Result(MODO_init(m, modo_dict(decl)), "ManyRoots", <<>>)
    ELSE IF has_duplicates(declared_ids(decl))
    THEN Result(MODO_init(m, modo_dict(decl)), "DuplicateId", <<>>)
    ELSE
    LET m1 == MODO_init(m, modo_dict(decl))
    IN remove_old(build_elements(m1, instance_list(decl), 1, metadata_keys(m1),
                                 <<Step("init", NoId, "")>>),
                  no_remove, order)

\* MODO.from_file.  order is the order in which the dictionary of the ids
\* of the archive yields the old ids.
from_file(m, decl, no_remove, order) ==
    IF modo_count(decl) > 1
    THEN Result(m, "ManyRoots", <<>>)
    ELSE IF has_duplicates(declared_ids(decl))
    THEN Result(m, "DuplicateId", <<>>)
    ELSE
    LET m1 == MODO_init(m, modo_dict(decl))
    IN remove_old(build_elements(m1, instance_list(decl), 1, metadata_keys(m1),
                                 <<Step("init", NoId, "")>>),
                  no_remove, order)

(***************************************************************************)
(* cli/main.py: create                                                     *)
(***************************************************************************)
\* A test of the target that looks for a root with attributes only.
path_has_root(m) == m.root.type # ""

\* Path(object_path).exists()
path_exists(m) == m.dir

\* create: with --from-file the archive is built from the declaration,
\* else MODO(...) is called with the metadata given
create(m, use_file, args, decl) ==
    IF path_exists(m)
    THEN Result(m, "AlreadyExists", <<>>)
    ELSE IF use_file
    THEN from_file(m, decl, FALSE, <<>>)
    ELSE MODO_open(m, args)

(***************************************************************************)
(* api.py: MODO.remove_object, and the remove command of cli/main.py        *)
(* applied to the whole object.  s3 tells whether the endpoint the MODO     *)
(* object was made with offers an s3 service.                               *)
(***************************************************************************)
\* MODO.is_remote: self.endpoint.s3 is not None
is_remote(s3) == s3

\* The archive after storage.remove of every file storage.list yields: the
\* data files, the index files and the metadata documents of the tree; the
\* directories stay.
AllFilesRemoved(m) ==
    [ m EXCEPT !.containers = {},
               !.root = NoGroup,
               !.store = [k \in ElemKeys |-> NoGroup],
               !.view = [k \in ElemKeys |-> NoGroup],
               !.files = [p \in StoredPaths |-> NoFile],
               !.idx = {},
               !.cidx = {} ]

\* MODO.remove_object
remove_object(m, s3) ==
    IF ~is_remote(s3)
    THEN Result(Absent(m.abs), "", <<"remove", "rmtree">>)
    ELSE Result(AllFilesRemoved(m), "", <<"remove">>)

\* A remove command that does not ask for --force.
remove_root_unforced(m, force, s3) == remove_object(MODO_init(m, NoArgs), s3)

\* remove (cli/main.py) with no element id or with the name of the archive
\* directory: MODO(object_path) is opened, then the object is removed if
\* --force was given
remove_root(m, force, s3) ==
    LET modo1 == MODO_init(m, NoArgs) IN
    IF force
    THEN remove_object(modo1, s3)
    ELSE Result(modo1, "ValueError", <<>>)

(***************************************************************************)
(* helpers/schema.py: DataElement.encrypt and DataElement.decrypt, and      *)
(* api.py: MODO.encrypt and MODO.decrypt.  The data entities of the model   *)
(* have a genomic data_format, and an archive holds at most one of them.    *)
(***************************************************************************)
\* DataElement.encrypt: the data file and its index are encrypted next to
\* the originals, which are removed if delete is set
DataElement_encrypt(m, dm, delete) ==
    LET data_path == dm.data_path IN
    IF ~exists(m, Rel(data_path))
    THEN [m |-> m, dm |-> dm, err |-> "FileNotFound", calls |-> <<>>]
    ELSE IF is_encrypted(m.files[data_path])
    THEN [m |-> m, dm |-> dm, err |-> "", calls |-> <<>>]
    ELSE
    LET encrypted_path == add_suffix(data_path)
        idx_path == get_index(m, Rel(data_path))
        m1 == [m EXCEPT !.files[encrypted_path] = encrypt_bytes(m.files[data_path])]
        m2 == IF delete THEN remove(m1, Pre(data_path)) ELSE m1
        m3 == IF idx_path THEN [m2 EXCEPT !.cidx = @ \cup {data_path}] ELSE m2
        m4 == IF idx_path /\ delete THEN remove_index(m3, Pre(data_path)) ELSE m3
    IN [ m |-> m4,
         dm |-> [ data_path |-> encrypted_path,
                  data_checksum |-> compute_checksum(m4.files[encrypted_path]) ],
         err |-> "",
         calls |-> (IF delete THEN <<"encrypt_file", "remove">> ELSE <<"encrypt_file">>)
                     \o (IF ~idx_path THEN <<>>
                         ELSE IF delete THEN <<"encrypt_file", "remove">>
                         ELSE <<"encrypt_file">>) ]

\* DataElement.decrypt
DataElement_decrypt(m, dm) ==
    LET data_path == dm.data_path IN
    IF ~exists(m, Rel(data_path))
    THEN [m |-> m, dm |-> dm, err |-> "FileNotFound", calls |-> <<>>]
    ELSE IF ~is_encrypted(m.files[data_path])
    THEN [m |-> m, dm |-> dm, err |-> "", calls |-> <<>>]
    ELSE IF data_path \in Paths
    THEN [m |-> m, dm |-> dm, err |-> "ValueError", calls |-> <<>>]
    ELSE
    LET decrypted_path == remove_suffix(data_path)
        idx_path == get_index(m, Rel(decrypted_path))
        m1 == [m EXCEPT !.files[decrypted_path] = decrypt_bytes(m.files[data_path])]
        m2 == remove(m1, Pre(data_path))
    IN IF idx_path /\ decrypted_path \notin m.cidx
       THEN [ m |-> m2, dm |-> dm, err |-> "FileNotFound",
              calls |-> <<"decrypt_file", "remove">> ]
       ELSE [ m |-> IF idx_path /\ m.abs
                    THEN [m2 EXCEPT !.cidx = @ \ {decrypted_path}]
                    ELSE m2,
              dm |-> [ data_path |-> decrypted_path,
                       data_checksum |-> compute_checksum(m2.files[decrypted_path]) ],
              err |-> "",
              calls |-> IF idx_path
                        THEN <<"decrypt_file", "remove", "decrypt_file", "remove">>
                        ELSE <<"decrypt_file", "remove">> ]

\* The members of the data container, as self.zarr["data"].members() lists
\* them from the consolidated metadata.
DataMembers(m) == {k \in ElemKeys : k.t = "data" /\ m.view[k].present}

\* The body of the loop of MODO.encrypt and MODO.decrypt for the member k,
\* r being what the file transformation returned, then update_date, after
\* which the method returns
CryptTail(m, k, r) ==
    LET group == m.view[k]
        merged == update_metadata_from_model(
                    group,
                    [ description |-> group.description,
                      data_path |-> r.dm.data_path,
                      data_checksum |-> r.dm.data_checksum,
                      has_sample |-> <<>> ])
    IN IF r.err # ""
       THEN Result(r.m, r.err, r.calls)
       ELSE IF merged # group
       THEN Result([r.m EXCEPT !.store[k] = merged], "",
                   r.calls \o <<"set_attrs", "update_date">>)
       ELSE Result(r.m, "", r.calls \o <<"update_date">>)

\* MODO.encrypt
encrypt(m, delete) ==
    IF "data" \notin m.containers
    THEN Result(m, "KeyError", <<>>)
    ELSE IF DataMembers(m) = {}
    THEN Result(m, "", <<"update_date">>)
    ELSE
    LET k == CHOOSE x \in DataMembers(m) : TRUE
        group == m.view[k]
    IN IF group.type = ""
       THEN Result(m, "UnknownClass", <<>>)
       ELSE CryptTail(m, k,
                DataElement_encrypt(
                    m,
                    [data_path |-> group.data_path, data_checksum |-> group.data_checksum],
                    delete))

\* MODO.decrypt
decrypt(m) ==
    IF "data" \notin m.containers
    THEN Result(m, "KeyError", <<>>)
    ELSE IF DataMembers(m) = {}
    THEN Result(m, "", <<"update_date">>)
    ELSE
    LET k == CHOOSE x \in DataMembers(m) : TRUE
        group == m.view[k]
    IN IF group.type = ""
       THEN Result(m, "UnknownClass", <<>>)
       ELSE CryptTail(m, k,
                DataElement_decrypt(
                    m,
                    [data_path |-> group.data_path, data_checksum |-> group.data_checksum]))

(***************************************************************************)
(* storage.py: Storage.transfer, and api.py: MODO.upload and MODO.download. *)
(* A storage is described by the same record as the archive, whatever its   *)
(* backend.                                                                 *)
(***************************************************************************)
\* S3Storage.__init__: the store under the prefix is opened if objects
\* exist under data.zarr, else init_zarr creates the root group and the
\* containers
S3Storage_init(m) ==
    IF m.zroot
    THEN m
    ELSE [ m EXCEPT !.dir = TRUE, !.zroot = TRUE, !.containers = ElementTypes,
                    !.root = EmptyGroup ]

\* Storage.transfer: every file self.list() yields (the metadata documents
\* of the tree, the data files and the index files) is opened and put into
\* the other storage under the same relative path.  The result is the other
\* storage.
transfer(m, other) ==
    [ other EXCEPT
        !.dir = @ \/ m.dir,
        !.zroot = @ \/ m.zroot,
        !.root = IF m.root.present THEN m.root ELSE @,
        !.view = IF m.root.present THEN m.view ELSE @,
        !.containers = @ \cup m.containers,
        !.store = [k \in ElemKeys |-> IF m.store[k].present THEN m.store[k] ELSE @[k]],
        !.files = [p \in StoredPaths |-> IF m.files[p] # NoFile THEN m.files[p] ELSE @[p]],
        !.idx = @ \cup m.idx,
        !.cidx = @ \cup m.cidx ]

\* MODO.upload: self.storage.transfer(S3Storage(target_path, ...))
upload(m, target) == transfer(m, S3Storage_init(target))

\* MODO.download: self.storage.transfer(LocalStorage(target_path))
download(m, target) == transfer(m, LocalStorage_init(target))

(***************************************************************************)
(* The callers: the records and arguments the operations are called with   *)
(***************************************************************************)
Elem(t, n, description, data_path, has_sample) ==
    [ t |-> t, n |-> n, description |-> description, data_path |-> data_path,
      data_checksum |-> "", has_sample |-> has_sample ]

A1 == K("assay", "a1")
S1 == K("sample", "s1")
S2 == K("sample", "s2")
D1 == K("data", "d1")
R1 == K("reference", "r1")

\* The records add_element is called with for the element k.  A reference
\* genome names the path of its sequence file, which a data entity may
\* name too.
NewRecords(k) ==
    CASE k.t = "sample" -> { Elem(k.t, k.n, "v1", "", <<>>) }
      [] k.t = "assay" ->
           { Elem(k.t, k.n, "", "", hs) : hs \in {<<>>, <<K("", "s1")>>} }
      [] k.t = "data" -> { Elem(k.t, k.n, "", p, <<>>) : p \in Paths }
      [] OTHER -> { Elem(k.t, k.n, "", "p1", <<>>) }

\* The records update_element is called with for the element k.
Records(k) ==
    CASE k.t = "sample" ->
           { Elem(k.t, k.n, d, "", <<>>) : d \in {"", "v1", "v2"} }
      [] OTHER -> NewRecords(k)

\* A record of another type than k's, with k's local id.
OtherRecord(k) ==
    IF k.t = "sample"
    THEN Elem("assay", k.n, "", "", <<>>)
    ELSE Elem("sample", k.n, "v1", "", <<>>)

\* Source files are given with data entities only.
SourcesFor(k) == IF k.t = "data" THEN Sources \cup {NoSrc} ELSE {NoSrc}

\* The parents add_element is called with (part_of): for each type one that
\* accepts it and one that does not.
NewParents(k) ==
    CASE k.t = "sample" -> {NoId, A1, D1}
      [] k.t = "assay" -> {NoId, S1}
      [] k.t = "data" -> {NoId, A1}
      [] OTHER -> {NoId, D1, S1}

\* The parents update_element is called with.
Parents(k) ==
    CASE k.t = "sample" -> {NoId, A1}
      [] k.t = "assay" -> {NoId}
      [] k.t = "data" -> {NoId, A1}
      [] OTHER -> {NoId, S1}

\* The declarations from_file is called with: a root and children to
\* update or add, children only, a data entity with a new file, one id
\* twice, two roots, and the empty declaration.
Declarations ==
    { <<>>,
      << Entry(TRUE, Elem("", RootId, "r2", "", <<>>), NoSrc, NoId),
         Entry(FALSE, Elem("assay", "a1", "", "", <<>>), NoSrc, NoId),
         Entry(FALSE, Elem("sample", "s1", "v2", "", <<>>), NoSrc, A1) >>,
      << Entry(FALSE, Elem("assay", "a1", "", "", <<>>), NoSrc, NoId),
         Entry(FALSE, Elem("sample", "s1", "v1", "", <<>>), NoSrc, NoId) >>,
      << Entry(FALSE, Elem("sample", "s2", "v1", "", <<>>), NoSrc, NoId),
         Entry(FALSE, Elem("data", "d1", "", "p2", <<>>),
               [c |-> "c2", idx |-> FALSE], NoId) >>,
      << Entry(FALSE, Elem("sample", "s1", "v1", "", <<>>), NoSrc, NoId),
         Entry(FALSE, Elem("sample", "s1", "v2", "", <<>>), NoSrc, NoId) >>,
      << Entry(TRUE, Elem("", RootId, "r1", "", <<>>), NoSrc, NoId),
         Entry(TRUE, Elem("", RootId, "r2", "", <<>>), NoSrc, NoId) >> }

\* The orders in which the ids of S can come.
Orders(S) ==
    { q \in [1..Cardinality(S) -> S] :
        \A i, j \in 1..Cardinality(S) : q[i] = q[j] => i = j }

\* Archives built by calls of the operations above, in which the bounded
\* runs start.
AssayArchive(abs) ==
    LET m1 == add_element(NewModo(abs), Elem("assay", "a1", "", "", <<>>), NoSrc, NoId).m
        m2 == add_element(m1, Elem("sample", "s1", "v1", "", <<>>), NoSrc, A1).m
    IN add_element(m2, Elem("sample", "s2", "v1", "", <<>>), NoSrc, A1).m

DataArchive(abs) ==
    LET m1 == add_element(NewModo(abs), Elem("data", "d1", "", "p1", <<>>),
                          [c |-> "c1", idx |-> TRUE], NoId).m
    IN add_element(m1, Elem("sample", "s1", "v1", "", <<>>), NoSrc, D1).m

Archives(abs) == {NewModo(abs), AssayArchive(abs), DataArchive(abs)}

NoOp ==
    [ op |-> "none", id |-> NoId, new |-> Elem("", "", "", "", <<>>),
      source_file |-> NoSrc, part_of |-> NoId, err |-> "", calls |-> <<>> ]

(***************************************************************************)
(* The state machine                                                       *)
(***************************************************************************)
\* A handle on a group: the attributes it read when it was opened and, for
\* the root group, the consolidated metadata of the same document.
NoHandle == [g |-> NoGroup, view |-> [k \in ElemKeys |-> NoGroup]]

\* No call is in progress.
NoWriters == [of |-> <<>>, order |-> <<>>, overlap |-> FALSE]

Init ==
    /\ modo \in UNION {Archives(abs) \cup {Absent(abs), EmptyDir(abs)} : abs \in BOOLEAN}
    /\ prev = modo
    /\ last = NoOp
    /\ nops = 0
    /\ writers = NoWriters

\* The operations of a MODO object are called on an archive that was opened.
Opened(m) == m.root.type = "MODO"

Call(op, id, new, source_file, part_of, r) ==
    /\ nops < MaxOps
    /\ nops' = nops + 1
    /\ prev' = modo
    /\ modo' = r.m
    /\ last' = [ op |-> op, id |-> id, new |-> new, source_file |-> source_file,
                 part_of |-> part_of, err |-> r.err, calls |-> r.calls ]
    /\ UNCHANGED writers

AddElement ==
    \E k \in ElemKeys : \E e \in NewRecords(k) : \E src \in SourcesFor(k) :
      \E part_of \in NewParents(k) :
        Opened(modo) /\ Call("add", k, e, src, part_of, add_element(modo, e, src, part_of))

\* The records add_element is called with under a local id that is taken:
\* by the element k, with a record of another type, and by the root.  They
\* name a parent that holds no element of their type.
ClashingRecords(m) ==
    { OtherRecord(k) : k \in {x \in ElemKeys : m.view[x].present} }
        \cup { Elem("sample", RootId, "v1", "", <<>>) }

AddClashing ==
    \E e \in ClashingRecords(modo) :
        Opened(modo) /\ Call("add", K(e.t, e.n), e, NoSrc, S1, add_element(modo, e, NoSrc, S1))

UpdateElement ==
    \E k \in ElemKeys :
      Opened(modo) /\
      \/ \E new \in Records(k) : \E src \in SourcesFor(k) :
           \E part_of \in Parents(k) :
             Call("update", k, new, src, part_of,
                  update_element(modo, k, new, src, part_of))
      \/ Call("update", k, OtherRecord(k), NoSrc, NoId,
              update_element(modo, k, OtherRecord(k), NoSrc, NoId))

\* The ids remove_element is called with: the elements, and the bare name
\* of a container.
RemoveIds == ElemKeys \cup {K("sample", "")}

RemoveElement ==
    \E k \in RemoveIds :
        Opened(modo) /\ Call("remove", k, NoOp.new, NoSrc, NoId, remove_element(modo, k))

\* The arguments MODO(...) is called with.
OpenArgs == { NoArgs, RootArgs("r1", <<K("", "a1")>>) }

Open ==
    \E args \in OpenArgs :
        Call("open", NoId, args, NoSrc, NoId, MODO_open(modo, args))

\* The last operation was from_file with these arguments, and it returned.
AppliedLast(decl, no_remove) ==
    /\ last.op = "from_file" /\ last.err = ""
    /\ last.new.decl = decl /\ last.new.no_remove = no_remove

\* from_file; last.new.again tells that the call applies the declaration
\* to the archive the same call produced
FromFile ==
    /\ nops < MaxOps
    /\ \E decl \in Declarations : \E no_remove \in BOOLEAN :
       \E order \in IF no_remove
                    THEN {<<>>}
                    ELSE Orders(old_ids(metadata_keys(modo), decl)) :
        Call("from_file", NoId,
             [ decl |-> decl, no_remove |-> no_remove,
               again |-> AppliedLast(decl, no_remove) ],
             NoSrc, NoId, from_file(modo, decl, no_remove, order))

\* The inputs of create: --meta with the attributes of the root, or
\* --from-file with a declaration.
CreateInputs ==
    {[use_file |-> FALSE, args |-> a, decl |-> <<>>] : a \in OpenArgs}
    \cup {[use_file |-> TRUE, args |-> NoArgs, decl |-> d] :
            d \in {x \in Declarations : Len(x) >= 2 /\ x[1].e.n \in {RootId, "s1"}}}

Create ==
    \E c \in CreateInputs :
        Call("create", NoId, c, NoSrc, NoId,
             create(modo, c.use_file, c.args, c.decl))

\* remove_object is called on a MODO object; what the call was made with is
\* kept in last.new.
RemoveObject ==
    \E s3 \in BOOLEAN :
        Opened(modo) /\ Call("remove_object", NoId, [s3 |-> s3], NoSrc, NoId,
                             remove_object(modo, s3))

\* modos remove on the whole object
RemoveCommand ==
    \E force \in BOOLEAN : \E s3 \in BOOLEAN :
        Call("remove_root", NoId, [force |-> force, s3 |-> s3], NoSrc, NoId,
             remove_root(modo, force, s3))

\* encrypt and decrypt; last.new.again tells that the same operation was
\* the one before and returned
Encrypt ==
    \E delete \in BOOLEAN :
        Opened(modo) /\ Call("encrypt", NoId,
                             [ delete |-> delete,
                               again |-> last.op = "encrypt" /\ last.err = "" ],
                             NoSrc, NoId, encrypt(modo, delete))

Decrypt ==
    Opened(modo) /\ Call("decrypt", NoId,
                         [again |-> last.op = "decrypt" /\ last.err = ""],
                         NoSrc, NoId, decrypt(modo))

\* The targets of upload: a prefix that holds nothing, and one that holds
\* an archive.
UploadTargets == {Absent(TRUE), AssayArchive(TRUE)}

\* upload and download leave the archive they read as it is; the storage
\* they wrote is kept in last.new.copy, with the storage it was copied
\* from and whether every target on the way held nothing before.
Transferred(op, source, fresh, copy) ==
    /\ nops < MaxOps + 1
    /\ nops' = nops + 1
    /\ prev' = modo
    /\ modo' = modo
    /\ last' = [ op |-> op, id |-> NoId,
                 new |-> [source |-> source, fresh |-> fresh, copy |-> copy],
                 source_file |-> NoSrc, part_of |-> NoId, err |-> "",
                 calls |-> <<"transfer">> ]
    /\ UNCHANGED writers

Upload ==
    \E target \in UploadTargets :
        Opened(modo) /\ Transferred("upload", modo, ~target.dir, upload(modo, target))

\* download, called on the archive that was uploaded last
Download ==
    /\ last.op = "upload"
    /\ Transferred("download", last.new.copy, last.new.fresh,
                   download(last.new.copy, Absent(TRUE)))

Next ==
    \/ AddElement \/ AddClashing \/ UpdateElement \/ RemoveElement \/ Open \/ FromFile \/ Create
    \/ RemoveObject \/ RemoveCommand \/ Encrypt \/ Decrypt

Spec == Init /\ [][Next]_vars

\* Archives that lose elements, are uploaded and are downloaded again.
NextTransfer == RemoveElement \/ Upload \/ Download

SpecTransfer == Init /\ [][NextTransfer]_vars

(***************************************************************************)
(* Two callers of add_element on one archive.  Nothing in api.py serialises *)
(* them: each call is the sequence of reads and writes of                  *)
(* _add_any_element, and the steps of the two calls come in any order.     *)
(* The calls bring no source file.                                         *)
(***************************************************************************)
Writers == {1, 2}

Other(w) == 3 - w

\* The calls: samples of the assay a1, the assay (linked to the root), a
\* data entity of the assay, and a sample with no parent.
WriterCalls ==
    { [e |-> Elem("sample", "s1", "v1", "", <<>>), part_of |-> A1],
      [e |-> Elem("sample", "s2", "v1", "", <<>>), part_of |-> A1],
      [e |-> Elem("assay", "a1", "", "", <<>>), part_of |-> NoId],
      [e |-> Elem("data", "d1", "", "p1", <<>>), part_of |-> A1],
      [e |-> Elem("sample", "s1", "v1", "", <<>>), part_of |-> NoId] }

\* An archive with the assay a1 and no sample.
ParentArchive(abs) ==
    add_element(NewModo(abs), Elem("assay", "a1", "", "", <<>>), NoSrc, NoId).m

InitWriters ==
    /\ modo \in {NewModo(TRUE), ParentArchive(TRUE), AssayArchive(TRUE)}
    /\ prev = modo
    /\ last = NoOp
    /\ nops = 0
    /\ \E c \in [Writers -> WriterCalls] :
          writers = [ of |-> [ w \in Writers |->
                                 [ pc |-> "start", e |-> c[w].e,
                                   part_of |-> c[w].part_of,
                                   handle |-> NoHandle, err |-> "" ] ],
                      order |-> <<>>, overlap |-> FALSE ]

InProgress(w) == writers.of[w].pc \notin {"start", "done"}

\* The call of w goes on at pc with the handle it holds.
Goes(w, pc, handle) ==
    writers' = [writers EXCEPT !.of[w].pc = pc, !.of[w].handle = handle]

\* The call of w raises err and returns.
Raises(w, err) ==
    /\ writers' = [writers EXCEPT !.of[w].pc = "done", !.of[w].err = err]
    /\ modo' = modo

\* A write that never reaches the store.
put_attrs_dropped(m, id, handle) == m

\* A handle writes its metadata document: the attributes of an element
\* group, or the root document with the attributes of the root and the
\* consolidated metadata the handle read.
put_attrs(m, id, handle) ==
    IF id # NoId
    THEN [m EXCEPT !.store[id] = handle.g]
    ELSE [m EXCEPT !.root = handle.g, !.view = handle.view]

\* if element.id in [Path(id).name for id in self.metadata.keys()]
CheckId(w) ==
    LET c == writers.of[w]
        dup == c.e.n \in metadata_names(modo)
    IN /\ c.pc = "start"
       /\ writers' = [ writers EXCEPT
                         !.of[w].pc = IF dup THEN "done" ELSE "checked",
                         !.of[w].err = IF dup THEN "DuplicateId" ELSE "",
                         !.order = Append(@, w),
                         !.overlap = @ \/ InProgress(Other(w)) ]
       /\ modo' = modo

\* type_group = self.zarr[type_name], and the handle on the parent:
\* self.zarr[part_of] if part_of else self.zarr
OpenParent(w) ==
    LET c == writers.of[w]
        linked == c.e.t = "assay" \/ c.part_of # NoId
    IN /\ c.pc = "checked"
       /\ IF c.e.t \notin modo.containers
          THEN Raises(w, "KeyError")
          ELSE IF ~linked
          THEN Goes(w, "linked", NoHandle) /\ modo' = modo
          ELSE IF c.part_of # NoId /\ ~modo.view[c.part_of].present
          THEN Raises(w, "KeyError")
          ELSE /\ Goes(w, "opened",
                       [ g |-> IF c.part_of # NoId
                               THEN modo.view[c.part_of] ELSE modo.root,
                         view |-> modo.view ])
               /\ modo' = modo

\* set_haspart_relationship on the handle: parent_group.attrs[has_prop] +=
\* [child_path] writes the attributes the handle holds
LinkParent(w) ==
    LET c == writers.of[w]
        r == set_haspart_relationship(ClassOf(c.e.t), K(c.e.t, c.e.n), c.handle.g)
    IN /\ c.pc = "opened"
       /\ IF r.err # ""
          THEN Raises(w, r.err)
          ELSE /\ modo' = put_attrs(modo, c.part_of,
                                    [g |-> r.g, view |-> c.handle.view])
               /\ Goes(w, "linked", NoHandle)

\* add_metadata_group: create_group and the attributes of the new group
CreateGroup(w) ==
    LET c == writers.of[w]
        key == K(c.e.t, c.e.n)
        dm == [data_path |-> c.e.data_path, data_checksum |-> ""]
    IN /\ c.pc = "linked"
       /\ IF modo.store[key].present
          THEN Raises(w, "ContainsGroup")
          ELSE /\ modo' = [modo EXCEPT !.store[key] = ElementAttrs(c.e, dm)]
               /\ Goes(w, "grouped", NoHandle)

\* update_date: self.zarr opens the root group ...
OpenRoot(w) ==
    /\ writers.of[w].pc = "grouped"
    /\ Goes(w, "dating", [g |-> modo.root, view |-> modo.view])
    /\ modo' = modo

\* ... and attrs.update(last_update_date=...) writes its document
UpdateDate(w) ==
    /\ writers.of[w].pc = "dating"
    /\ modo' = put_attrs(modo, NoId, writers.of[w].handle)
    /\ Goes(w, "dated", NoHandle)

\* zarr.consolidate_metadata reads the root and the groups of the tree ...
ReadTree(w) ==
    /\ writers.of[w].pc = "dated"
    /\ Goes(w, "consolidating",
            [g |-> modo.root, view |-> consolidate_metadata(modo).view])
    /\ modo' = modo

\* ... and writes the root document with what it read; the call returns
Consolidate(w) ==
    /\ writers.of[w].pc = "consolidating"
    /\ modo' = put_attrs(modo, NoId, writers.of[w].handle)
    /\ Goes(w, "done", NoHandle)

NextWriters ==
    \/ \E w \in Writers : CheckId(w) /\ UNCHANGED <<prev, last, nops>>
    \/ \E w \in Writers : OpenParent(w) /\ UNCHANGED <<prev, last, nops>>
    \/ \E w \in Writers : LinkParent(w) /\ UNCHANGED <<prev, last, nops>>
    \/ \E w \in Writers : CreateGroup(w) /\ UNCHANGED <<prev, last, nops>>
    \/ \E w \in Writers : OpenRoot(w) /\ UNCHANGED <<prev, last, nops>>
    \/ \E w \in Writers : UpdateDate(w) /\ UNCHANGED <<prev, last, nops>>
    \/ \E w \in Writers : ReadTree(w) /\ UNCHANGED <<prev, last, nops>>
    \/ \E w \in Writers : Consolidate(w) /\ UNCHANGED <<prev, last, nops>>

SpecWriters == InitWriters /\ [][NextWriters]_vars

(***************************************************************************)
(* Observations used by the properties                                     *)
(***************************************************************************)
\* The has-part attribute p of the attribute group g holds id in a list.
Holds(g, p, id) == g[p].k = "list" /\ InSeq(id, g[p].l)

\* The ids of a has-part attribute value (none when absent or None).
Ids(v) == IF v.k = "list" THEN v.l ELSE <<>>

Without(q, x) == SelectSeq(q, LAMBDA y : y # x)

IsPrefix(q, r) == Len(q) <= Len(r) /\ \A i \in 1..Len(q) : q[i] = r[i]

ElemProps == {"has_sample", "has_data", "has_reference"}

\* The element k exists with the type its id names.
IsElement(m, k) ==
    /\ k \in ElemKeys
    /\ m.store[k].present /\ m.store[k].type = ClassOf(k.t)
    /\ m.view[k].present /\ m.view[k].type = ClassOf(k.t)

Returned(op) == last.op = op /\ last.err = ""

\* The archive answers a lookup of id: an element of the view, or a
\* container named by its bare name.
InArchive(m, id) ==
    IF id \in ElemKeys THEN m.view[id].present ELSE id.t \in m.containers

(***************************************************************************)
(* Properties                                                              *)
(***************************************************************************)

\* C1: add_element of a record whose local id is the local id of an existing
\* element of the same type fails with the duplicate-id error and leaves the
\* whole archive (root, groups, attributes, view, files) as it was.
C1_DuplicateIdRejected ==
    (last.op = "add" /\ IsElement(prev, last.id))
        => (last.err = "DuplicateId" /\ modo = prev)

C1_Witness ==
    /\ last.op = "add" /\ IsElement(prev, last.id)
    /\ last.err = "DuplicateId"
    /\ last.source_file # NoSrc

\* C2: when an element A holds the id of B in a has-part attribute and
\* remove_element(B) returns, that attribute of A no longer holds B's id.
C2_RemoveClearsReference ==
    Returned("remove") =>
        \A A \in ElemKeys \ {last.id} : \A p \in ElemProps :
            (IsElement(prev, A) /\ Holds(prev.view[A], p, last.id))
                => (~Holds(modo.view[A], p, last.id)
                    /\ ~Holds(modo.store[A], p, last.id))

C2_Witness ==
    /\ Returned("remove")
    /\ \E A \in ElemKeys \ {last.id} : \E p \in ElemProps :
          IsElement(prev, A) /\ Holds(prev.view[A], p, last.id)
          /\ modo.store[A].present

\* C3 (as claimed): when remove_element(B) returns, every list of another
\* element that held B's id still holds all its other ids, in their order.
C3_OtherEntriesKept ==
    Returned("remove") =>
        \A A \in ElemKeys \ {last.id} : \A p \in ElemProps :
            (IsElement(prev, A) /\ Holds(prev.view[A], p, last.id))
                => Ids(modo.view[A][p]) = Without(prev.view[A][p].l, last.id)

\* C4 (as claimed): when remove_element(A) returns and A held the id of an
\* element B in a has-part attribute, A's group is gone, the file at A's
\* data_path is gone, and B's group and attributes are as before.
C4_RemoveParentOnly ==
    Returned("remove") =>
        \A B \in ElemKeys \ {last.id} : \A p \in ElemProps :
            (IsElement(prev, last.id) /\ IsElement(prev, B)
             /\ Holds(prev.view[last.id], p, B))
                => /\ ~modo.store[last.id].present
                   /\ ~modo.view[last.id].present
                   /\ prev.view[last.id].data_path # ""
                        => modo.files[prev.view[last.id].data_path] = NoFile
                   /\ modo.store[B] = prev.store[B]
                   /\ modo.view[B] = prev.view[B]

\* The attributes of the group add_element or update_element links the child
\* to: the root for an assay given no parent, else the group named part_of.
ParentAttrs(m) == IF last.part_of = NoId THEN m.root ELSE m.view[last.part_of]

ChildProp == get_haspart_property(ClassOf(last.new.t))

\* C5: after a successful add_element with a parent (or of an assay without
\* one, whose parent is the root) the has-part list of the parent that
\* accepts the child's type is the list it was before, followed by the
\* child's full id.
C5_ChildAppended ==
    (Returned("add") /\ (last.part_of # NoId \/ last.new.t = "assay"))
        => /\ ParentAttrs(modo)[ChildProp]
                = ListL(Append(Ids(ParentAttrs(prev)[ChildProp]), last.id))
           /\ last.part_of # NoId
                => modo.store[last.part_of] = modo.view[last.part_of]

C5_Witness ==
    /\ Returned("add") /\ last.part_of # NoId
    /\ Len(Ids(ParentAttrs(prev)[ChildProp])) >= 1
    /\ Len(Ids(ParentAttrs(modo)[ChildProp])) >= 2

\* The parent named by the last call exists, has a type, and its type has no
\* has-part attribute for the child's class.
ParentRejects ==
    /\ last.part_of # NoId
    /\ prev.view[last.part_of].present
    /\ prev.view[last.part_of].type # ""
    /\ ChildProp \notin HasPartSlots(prev.view[last.part_of].type)

\* The last call got as far as linking the child to its parent.
ReachedLinking ==
    \/ last.op = "add" /\ last.new.n \notin metadata_names(prev)
    \/ /\ last.op = "update"
       /\ IsElement(prev, last.id)
       /\ ClassOf(last.new.t) = prev.view[last.id].type
       /\ last.err # "FileNotFound"

\* C6: add_element or update_element naming a parent whose type cannot hold
\* the child's type fails with the invalid-relationship error, and no
\* attribute of the root or of any group is written.
C6_InvalidRelationship ==
    (ParentRejects /\ ReachedLinking)
        => /\ last.err = "InvalidRelationship"
           /\ modo.store = prev.store
           /\ modo.view = prev.view
           /\ modo.root = prev.root

C6_Witness ==
    /\ ParentRejects /\ ReachedLinking
    /\ last.op = "update"
    /\ last.new.t = "reference" /\ last.part_of.t = "sample"

\* C7: after a successful add_element of a data entity with a source file
\* the data_checksum of the metadata view is the digest of the source's
\* bytes and the file at the element's data_path has those bytes.
C7_ChecksumOfSource ==
    (Returned("add") /\ last.new.t = "data" /\ last.source_file # NoSrc)
        => /\ modo.view[last.id].data_checksum
                = compute_checksum(last.source_file.c)
           /\ modo.view[last.id].data_path = last.new.data_path
           /\ modo.files[modo.view[last.id].data_path] = last.source_file.c

C7_Witness ==
    /\ Returned("add") /\ last.new.t = "data" /\ last.source_file # NoSrc
    /\ prev.files[last.new.data_path] \notin {NoFile, last.source_file.c}

\* The last call is a successful update_element of a data element.
UpdatedData == Returned("update") /\ IsElement(prev, last.id) /\ last.id.t = "data"

OldPath == prev.view[last.id].data_path

PathChanged == last.new.data_path # OldPath

ContentChanged ==
    /\ last.source_file # NoSrc
    /\ compute_checksum(last.source_file.c) # prev.view[last.id].data_checksum

\* C8 (as claimed): update_element with a new data_path and a source of
\* other content ends with the source's bytes at the new path, no file at
\* the old path, and the new path and the source's digest stored.
C8_PathAndContent ==
    (UpdatedData /\ PathChanged /\ ContentChanged)
        => /\ modo.files[last.new.data_path] = last.source_file.c
           /\ modo.files[OldPath] = NoFile
           /\ modo.view[last.id].data_path = last.new.data_path
           /\ modo.view[last.id].data_checksum
                = compute_checksum(last.source_file.c)

\* C9: update_element with a new data_path and unchanged content (no source,
\* or a source with the stored digest) moves the file: it is at the new path
\* with its bytes and not at the old one, the new path is stored and the
\* stored checksum is the one stored before.
C9_Relocated ==
    (UpdatedData /\ PathChanged /\ ~ContentChanged)
        => /\ modo.files[last.new.data_path] # NoFile
           /\ modo.files[last.new.data_path] = prev.files[OldPath]
           /\ modo.files[OldPath] = NoFile
           /\ modo.view[last.id].data_path = last.new.data_path
           /\ modo.view[last.id].data_checksum
                = prev.view[last.id].data_checksum

C9_Witness ==
    /\ UpdatedData /\ PathChanged /\ ~ContentChanged
    /\ last.source_file # NoSrc

\* C10: update_element with the stored data_path and a source whose digest
\* differs from the stored checksum leaves the source's bytes at that path
\* and stores the source's digest.
C10_Overwritten ==
    (UpdatedData /\ ~PathChanged /\ ContentChanged)
        => /\ modo.files[OldPath] = last.source_file.c
           /\ modo.view[last.id].data_path = OldPath
           /\ modo.view[last.id].data_checksum
                = compute_checksum(last.source_file.c)

C10_Witness ==
    /\ UpdatedData /\ ~PathChanged /\ ContentChanged
    /\ prev.files[OldPath] \notin {NoFile, last.source_file.c}
    /\ prev.view[last.id].data_checksum # ""

\* The last call is an update_element of an existing element with a record
\* of its class.
UpdatedElement ==
    /\ last.op = "update" /\ IsElement(prev, last.id)
    /\ ClassOf(last.new.t) = prev.view[last.id].type

\* The group of k holds no write that was not consolidated: the store and
\* the metadata view agree on it, so each attribute has one stored value.
Consolidated(m, k) == m.store[k] = m.view[k]

\* The attributes the records of the callers never carry.
NotCarried == {"type", "has_assay", "has_data", "has_reference"}

\* C11: update_element never removes or blanks a stored attribute: an
\* attribute for which the record, as it is merged, carries no value (empty
\* description, empty has_sample, no checksum because no source file was
\* given, or an attribute the record does not have) is stored after the
\* call as it was before, and no attribute that had a value is left
\* without one.
C11_NothingBlanked ==
    (UpdatedElement /\ Consolidated(prev, last.id)) =>
        LET old == prev.view[last.id]
            now == modo.view[last.id]
        IN /\ now.present
           /\ Returned("update") => modo.store[last.id] = now
           /\ \A f \in NotCarried : now[f] = old[f]
           /\ last.new.description = "" => now.description = old.description
           /\ last.new.has_sample = <<>> => now.has_sample = old.has_sample
           /\ last.new.data_path = "" => now.data_path = old.data_path
           /\ last.source_file = NoSrc => now.data_checksum = old.data_checksum
           /\ old.description # "" => now.description # ""
           /\ old.data_path # "" => now.data_path # ""
           /\ old.data_checksum # "" => now.data_checksum # ""

C11_Witness ==
    /\ UpdatedElement /\ Consolidated(prev, last.id) /\ Returned("update")
    /\ last.new.has_sample = <<>> /\ Len(Ids(prev.view[last.id].has_sample)) >= 1
    /\ last.new.description = ""
    /\ "set_attrs" \in {last.calls[i] : i \in 1..Len(last.calls)}

\* The record of the last call is identical to the stored state of the
\* element: every attribute it can carry has the stored value, and a source
\* file, if one is given, has the stored digest.
IdenticalRecord ==
    LET old == prev.view[last.id] IN
    /\ last.new.description = old.description
    /\ last.new.data_path = old.data_path
    /\ update_haspart_id("has_sample", last.new.has_sample) = Ids(old.has_sample)
    /\ last.source_file # NoSrc
          => compute_checksum(last.source_file.c) = old.data_checksum

StorageCalls == {"put", "move", "remove"}

\* C12: update_element with a record identical to the element's stored
\* state changes no attribute of the element and makes no put, move or
\* remove on the storage; the files are as they were.
C12_IdenticalUpdate ==
    (UpdatedElement /\ Consolidated(prev, last.id) /\ IdenticalRecord)
        => /\ modo.view[last.id] = prev.view[last.id]
           /\ modo.store[last.id] = prev.store[last.id]
           /\ \A i \in 1..Len(last.calls) : last.calls[i] \notin StorageCalls
           /\ modo.files = prev.files /\ modo.idx = prev.idx

C12_Witness ==
    /\ UpdatedElement /\ Consolidated(prev, last.id) /\ IdenticalRecord
    /\ Returned("update")
    /\ last.id.t = "data" /\ last.source_file # NoSrc
    /\ prev.files[last.new.data_path] = last.source_file.c

C14_RemoveAbsent ==
    (last.op = "remove" /\ ~InArchive(prev, last.id))
        => /\ last.err = "KeyError"
           /\ last.calls = <<>>
           /\ modo = prev

C14_Witness ==
    /\ last.op = "remove" /\ ~InArchive(prev, last.id)
    /\ last.err = "KeyError"
    /\ \E k \in ElemKeys : prev.view[k].present
    /\ \E p \in Paths : prev.files[p] # NoFile

\* The groups the store holds.
Groups(m) == {k \in ElemKeys : m.store[k].present}

\* C15 (as claimed): update_element with an id the archive does not hold
\* raises an error, and the archive holds no group for that id afterwards:
\* the set of element groups is the one before the call.
C15_UpdateAbsent ==
    (last.op = "update" /\ ~prev.view[last.id].present
                         /\ ~prev.store[last.id].present)
        => /\ last.err # ""
           /\ ~modo.store[last.id].present
           /\ Groups(modo) = Groups(prev)

\* C20: the root record is written only by the open of an empty store:
\* opening an archive whose root has attributes, with any arguments, makes
\* no write and leaves the root and every element as they were.
C20_OpenWritesOnce ==
    (last.op = "open" /\ prev.root.type # "")
        => /\ modo = prev
           /\ last.calls = <<>>

C20_Witness ==
    /\ last.op = "open" /\ prev.root.type # ""
    /\ last.new.description # prev.root.description
    /\ last.new.has_assay # <<>> /\ prev.root.has_assay.k = "absent"
    /\ \E k \in ElemKeys : prev.view[k].present

\* The declaration of the last call of from_file (or of create from a file).
Decl == last.new.decl

\* The elements the declaration names, by full id.
DeclaredKeys == {K(Decl[i].e.t, Decl[i].e.n) : i \in {j \in 1..Len(Decl) : ~Decl[j].root}}

\* The declaration names an id twice, or more than one root.
BadDeclaration ==
    \/ \E i, j \in 1..Len(Decl) : i < j /\ Decl[i].e.n = Decl[j].e.n
    \/ \E i, j \in 1..Len(Decl) : i < j /\ Decl[i].root /\ Decl[j].root

\* The steps of the last from_file that called op.
StepsOf(op) == {i \in 1..Len(last.calls) : last.calls[i].op = op}

\* C16: from_file rejects a declaration that names an id twice or more than
\* one root before it creates or changes anything: it raises, it made no
\* step, a target path where nothing existed still holds nothing, and an
\* archive that existed is as it was.
C16_BadDeclarationRejected ==
    (last.op = "from_file" /\ BadDeclaration)
        => /\ last.err \in {"DuplicateId", "ManyRoots"}
           /\ last.calls = <<>>
           /\ modo = prev

C16_Witness ==
    /\ last.op = "from_file" /\ BadDeclaration
    /\ last.err = "DuplicateId"
    /\ ~prev.dir /\ ~modo.dir /\ modo.containers = {}

\* C17 (as claimed): when from_file returns on an existing archive without
\* no_remove, the elements of the archive are exactly the declared ones:
\* each declared element exists, no group is left under any other id, and
\* the root is there.
C17_ExactlyDeclared ==
    ( /\ last.op = "from_file" /\ last.err = "" /\ ~last.new.no_remove
      /\ Opened(prev) )
        => /\ \A k \in DeclaredKeys : IsElement(modo, k)
           /\ \A k \in ElemKeys \ DeclaredKeys :
                  ~modo.view[k].present /\ ~modo.store[k].present
           /\ Opened(modo)

\* The children of the declaration, in its order.
Children == instance_list(Decl)

\* The description the declaration gives the root ("" if it declares none).
DeclaredRoot == modo_dict(Decl).description

\* C18 (as claimed): from_file with a valid declaration first creates the
\* root (no archive at the path) or updates the root record from the
\* declared root (an archive at the path), then processes the children in
\* the order of the declaration, each by update_element if the archive held
\* its id and by add_element otherwise.
C18_RootThenChildren ==
    (last.op = "from_file" /\ ~BadDeclaration)
        => /\ Len(last.calls) >= 1 /\ last.calls[1].op = "init"
           /\ Opened(modo)
           /\ DeclaredRoot # "" => modo.root.description = DeclaredRoot
           /\ \A i \in 1..Len(Children) :
                 (i + 1 <= Len(last.calls)) =>
                    /\ last.calls[i + 1].id = K(Children[i].e.t, Children[i].e.n)
                    /\ last.calls[i + 1].op =
                          IF prev.view[K(Children[i].e.t, Children[i].e.n)].present
                          THEN "update"
                          ELSE "add"
           /\ last.err = "" => Len(last.calls) >= 1 + Len(Children)

NoFileLeft(m) ==
    /\ ~m.root.present /\ m.containers = {}
    /\ \A k \in ElemKeys : ~m.store[k].present
    /\ \A p \in StoredPaths : m.files[p] = NoFile
    /\ m.idx = {} /\ m.cidx = {}

\* C21 (as claimed): after remove_object no file of the archive is left in
\* the storage, and the directory of an archive on local storage is gone,
\* with or without an s3 service on the endpoint of the object.
C21_ObjectRemoved ==
    Returned("remove_object") => NoFileLeft(modo) /\ ~modo.dir

\* C22: the remove command on the whole object of an existing archive
\* fails with ValueError and leaves the archive as it was without --force;
\* with --force it returns and no file of the archive is left, and the
\* directory is gone unless the object counts as remote.
C22_RemoveNeedsForce ==
    (last.op = "remove_root" /\ Opened(prev))
        => IF last.new.force
           THEN /\ last.err = ""
                /\ NoFileLeft(modo)
                /\ ~is_remote(last.new.s3) => modo = Absent(prev.abs)
           ELSE last.err = "ValueError" /\ modo = prev

C22_Witness ==
    /\ last.op = "remove_root" /\ ~last.new.force
    /\ last.err = "ValueError"
    /\ \E k \in ElemKeys : IsElement(prev, k) /\ IsElement(modo, k)
    /\ \E p \in Paths : modo.files[p] # NoFile

\* The operations of the facade other than remove_object.
FacadeOps == {"add", "update", "remove", "open", "from_file"}

\* C27 (as claimed): from its creation until remove_object the archive has
\* its root group and exactly the five containers, after any operation of
\* the facade with any argument, a bare container name given to
\* remove_element included.
C27_RootAndContainers ==
    ( /\ last.op \in FacadeOps
      /\ Opened(prev) /\ prev.containers = ElementTypes )
        => /\ modo.root.present /\ modo.root.type = "MODO"
           /\ modo.containers = ElementTypes

\* The mutating operations of the facade.
MutatingOps == {"add", "update", "remove", "encrypt", "decrypt"}

\* C24 (as claimed): when add_element, update_element, remove_element,
\* encrypt or decrypt returns, the consolidated view equals the attributes
\* stored in the tree.
C24_ConsolidatedOnReturn ==
    (last.op \in MutatingOps /\ last.err = "")
        => \A k \in ElemKeys : modo.view[k] = modo.store[k]

\* The lifecycle operations on elements.
ElementOps == {"add", "update", "remove"}

\* Every id a has-part attribute of the root or of an element holds is the
\* full id of an element that exists, of the type the attribute ranges over.
Resolves(m, p, id) ==
    /\ IsElement(m, id)
    /\ id.t = from_model_name(get_slot_range(p))

ReferencesResolve(m) ==
    /\ \A i \in 1..Len(Ids(m.root.has_assay)) :
          Resolves(m, "has_assay", m.root.has_assay.l[i])
    /\ \A k \in ElemKeys : \A p \in ElemProps :
          m.view[k].present =>
            \A i \in 1..Len(Ids(m.view[k][p])) : Resolves(m, p, m.view[k][p].l[i])

\* C25 (as claimed): completed add_element, update_element and
\* remove_element calls keep every id held in a has-part attribute the full
\* id of an existing element of the allowed type.
C25_ReferencesResolve ==
    (last.op \in ElementOps /\ last.err = "" /\ ReferencesResolve(prev))
        => ReferencesResolve(modo)

\* The data entity k is bound to a file: its group records a checksum.
Bound(m, k) ==
    k.t = "data" /\ m.view[k].present /\ m.view[k].data_checksum # ""

\* The file of a bound data entity is at its data_path, with the bytes the
\* stored checksum is the digest of.
FileMatches(m, k) ==
    /\ m.view[k].data_path \in StoredPaths
    /\ m.files[m.view[k].data_path] # NoFile
    /\ m.view[k].data_checksum = compute_checksum(m.files[m.view[k].data_path])

\* C26 (as claimed): completed add_element, update_element and
\* remove_element calls, on any element, leave every data entity that is
\* bound to a file with that file at its data_path and with the checksum
\* of its current bytes.
C26_FilesMatch ==
    ( /\ last.op \in ElementOps /\ last.err = ""
      /\ \A k \in ElemKeys : Bound(prev, k) => FileMatches(prev, k) )
        => \A k \in ElemKeys : Bound(modo, k) => FileMatches(modo, k)

\* C29 (as claimed): remove_element on a data entity whose file has a
\* companion index removes the file and the index file.
C29_IndexRemoved ==
    ( /\ Returned("remove") /\ last.id \in ElemKeys /\ last.id.t = "data"
      /\ IsElement(prev, last.id)
      /\ prev.view[last.id].data_path \in Paths
      /\ prev.files[prev.view[last.id].data_path] # NoFile
      /\ prev.view[last.id].data_path \in prev.idx )
        => /\ modo.files[prev.view[last.id].data_path] = NoFile
           /\ prev.view[last.id].data_path \notin modo.idx

\* C30 (as claimed): remove_element on an assay that the root lists in
\* has_assay returns without error, the root no longer lists the assay,
\* the update timestamp is touched and the metadata are consolidated.
C30_RemoveRootAssay ==
    ( /\ last.op = "remove" /\ last.id \in ElemKeys
      /\ IsElement(prev, last.id)
      /\ Holds(prev.root, "has_assay", last.id) )
        => /\ last.err = ""
           /\ ~InSeq(last.id, Ids(modo.root.has_assay))
           /\ ~modo.store[last.id].present /\ ~modo.view[last.id].present
           /\ InSeq("update_date", last.calls)
           /\ InSeq("consolidate", last.calls)

\* The files a storage lists, each with its bytes: the metadata documents
\* (root with the consolidated metadata, containers, element groups), the
\* data files and the index files.
FilesOf(m) ==
    [ root |-> m.root, view |-> m.view, containers |-> m.containers,
      store |-> m.store, files |-> m.files, idx |-> m.idx, cidx |-> m.cidx ]

\* Every file of the storage a is in the storage b, with the same bytes.
CopiedInto(a, b) ==
    /\ a.root.present => (b.root = a.root /\ b.view = a.view)
    /\ a.containers \subseteq b.containers
    /\ \A k \in ElemKeys : a.store[k].present => b.store[k] = a.store[k]
    /\ \A p \in StoredPaths : a.files[p] # NoFile => b.files[p] = a.files[p]
    /\ a.idx \subseteq b.idx /\ a.cidx \subseteq b.cidx

\* C23 (as claimed): transfer puts every file the source lists into the
\* target under the same path with the same bytes and leaves the source as
\* it was, and an archive uploaded to an empty target and downloaded again
\* has the files of the original, with the same bytes, and no other.
C23_TransferPreserves ==
    /\ last.op \in {"upload", "download"}
          => /\ modo = prev
             /\ CopiedInto(last.new.source, last.new.copy)
    /\ (last.op = "download" /\ prev = modo /\ last.new.fresh)
          => FilesOf(last.new.copy) = FilesOf(modo)

\* Both calls have returned.
AllDone == \A w \in Writers : writers.of[w].pc = "done"

\* The parent the call c links its element to keeps the link in its stored
\* attributes.
LinkStored(m, c) ==
    LET parent == IF c.part_of # NoId THEN m.store[c.part_of] ELSE m.root
    IN Holds(parent, get_haspart_property(ClassOf(c.e.t)), K(c.e.t, c.e.n))

\* The call of w makes a link: an assay is linked to the root, another
\* element to the parent it names.
Links(c) == c.e.t = "assay" \/ c.part_of # NoId

\* The two calls made one after the other, in the order they were started.
SerialRun ==
    LET c1 == writers.of[writers.order[1]]
        c2 == writers.of[writers.order[2]]
        r1 == add_element(prev, c1.e, NoSrc, c1.part_of)
        r2 == add_element(r1.m, c2.e, NoSrc, c2.part_of)
    IN [m |-> r2.m, err |-> [w \in Writers |-> IF w = writers.order[1]
                                               THEN r1.err ELSE r2.err]]

\* C28: when two calls of add_element on one archive run one after the
\* other, the archive is the one the two calls give in that order, each
\* call returns what it returns there, and the link of every call that
\* returned without error is in the stored attributes of its parent.  (The
\* interleaving that loses one link is C28_Witness.)
C28_SerialKeepsBoth ==
    (AllDone /\ ~writers.overlap)
        => /\ modo = SerialRun.m
           /\ \A w \in Writers :
                 /\ writers.of[w].err = SerialRun.err[w]
                 /\ (writers.of[w].err = "" /\ Links(writers.of[w]))
                       => LinkStored(modo, writers.of[w])

\* Two calls that link different children to the same parent have both
\* returned without error, and the link of one of them is not in the stored
\* attributes of the parent.
C28_Witness ==
    /\ AllDone /\ writers.overlap
    /\ \A w \in Writers : writers.of[w].err = "" /\ Links(writers.of[w])
    /\ writers.of[1].part_of = writers.of[2].part_of
    /\ writers.of[1].e.n # writers.of[2].e.n
    /\ \E w \in Writers :
          /\ ~LinkStored(modo, writers.of[w])
          /\ LinkStored(modo, writers.of[Other(w)])

\* The local id of the record of the last add_element is the local id of
\* an element of another type only, or of the root only.
UsedElsewhere(m, e) ==
    /\ ~IsElement(m, K(e.t, e.n))
    /\ \/ e.n = RootId
       \/ \E k \in ElemKeys : k.n = e.n /\ k.t # e.t /\ m.view[k].present

\* C40: add_element of a record whose local id is held by an element of
\* another type only, or by the root only, fails with the duplicate-id
\* error and leaves the archive as it was.
C40_IdsSharedAcrossTypes ==
    (last.op = "add" /\ UsedElsewhere(prev, last.new))
        => (last.err = "DuplicateId" /\ modo = prev)

C40_Witness ==
    /\ last.op = "add" /\ UsedElsewhere(prev, last.new)
    /\ last.new.n # RootId
    /\ last.err = "DuplicateId"

\* C39 (as claimed): an add_element with a source file that fails after
\* the file was bound (the parent is not in the archive, or may not hold
\* the element) leaves the files of the storage as they were.
C39_FailedAddKeepsFiles ==
    ( /\ last.op = "add" /\ last.source_file # NoSrc
      /\ last.err \notin {"", "DuplicateId"} )
        => /\ modo.files = prev.files
           /\ modo.idx = prev.idx

\* No id comes twice in a has-part list of the attributes g.
NoRepeat(g) ==
    \A i \in 1..Len(HasPartNames) :
        LET q == Ids(g[HasPartNames[i]])
        IN \A a, b \in 1..Len(q) : q[a] = q[b] => a = b

\* No has-part list of the root or of an element holds a child id twice.
NoRepeats(m) ==
    /\ NoRepeat(m.root)
    /\ \A k \in ElemKeys : NoRepeat(m.store[k])

\* C37 (as claimed): add_element and update_element, update_element calls
\* that name again the parent of the child included, leave no has-part
\* list of the root or of an element with the same child id twice.
C37_NoRepeatedChild ==
    (last.op \in {"add", "update"} /\ NoRepeats(prev)) => NoRepeats(modo)

\* C38 (as claimed): from_file applied a second time, with the same
\* declaration, to the archive the first application produced returns and
\* leaves the attributes of every element and of the root, and the stored
\* files, as the first application left them.
C38_FromFileTwice ==
    (last.op = "from_file" /\ last.new.again)
        => /\ last.err = ""
           /\ modo.view = prev.view
           /\ modo.store = prev.store
           /\ modo.root = prev.root
           /\ modo.files = prev.files
           /\ modo.idx = prev.idx

\* The data elements whose file encrypt transforms: the file is in the
\* storage and is not encrypted.
Transformed(m) ==
    { k \in ElemKeys :
        /\ k.t = "data" /\ m.store[k].present
        /\ m.store[k].data_path \in Paths
        /\ m.files[m.store[k].data_path] # NoFile
        /\ ~is_encrypted(m.files[m.store[k].data_path]) }

\* The stored files and the data_path and data_checksum of every data
\* element are those of prev.
SameData ==
    /\ modo.files = prev.files
    /\ \A k \in ElemKeys :
          /\ modo.store[k].data_path = prev.store[k].data_path
          /\ modo.store[k].data_checksum = prev.store[k].data_checksum

\* C36 (as claimed): encrypt applied after encrypt, and decrypt applied
\* after decrypt, return and leave the stored files and the data_path and
\* data_checksum of every data element as they were; and after one encrypt
\* every transformed element has the suffixed data_path, its plain file is
\* gone and its data_checksum is the digest of the encrypted file.
C36_CryptIdempotent ==
    /\ (last.op \in {"encrypt", "decrypt"} /\ last.new.again)
          => (last.err = "" /\ SameData)
    /\ (last.op = "encrypt" /\ last.err = "")
          => \A k \in Transformed(prev) :
                LET old == prev.store[k].data_path IN
                /\ modo.store[k].data_path = add_suffix(old)
                /\ modo.files[old] = NoFile
                /\ modo.store[k].data_checksum
                      = compute_checksum(modo.files[add_suffix(old)])


(***************************************************************************)
(* Calls that stop between two of their steps.  A step is one call to the  *)
(* storage backend or to zarr; a call that stops raises to its caller and  *)
(* leaves the archive as the steps made so far left it.                    *)
(***************************************************************************)
\* The outcome of a call that stopped after the calls listed
Stopped(m, calls) == [m |-> m, err |-> "Stopped", calls |-> calls]

\* An add_file that writes the companion index before the data file.
add_file_states_index_first(m, src, target_path) ==
    IF src.idx
    THEN <<put_index(m, target_path),
           put(put_index(m, target_path), src.c, target_path)>>
    ELSE <<put(m, src.c, target_path)>>

\* DataElement.add_file, call by call: the archive after each storage call
add_file_states(m, src, target_path) ==
    <<put(m, src.c, target_path)>>
      \o (IF src.idx
          THEN <<put_index(put(m, src.c, target_path), target_path)>>
          ELSE <<>>)

\* DataElement.move_file, call by call
move_file_states(m, source_path, target_path) ==
    IF ~exists(m, Rel(source_path))
    THEN <<>>
    ELSE <<move(m, source_path, target_path)>>
           \o (IF get_index(move(m, source_path, target_path), Rel(source_path))
               THEN <<move_index(move(m, source_path, target_path),
                                 source_path, target_path)>>
               ELSE <<>>)

\* DataElement.remove_file, call by call
remove_file_states(m, rm_path) ==
    <<remove(m, rm_path)>>
      \o (IF get_index(remove(m, rm_path), rm_path)
          THEN <<remove_index(remove(m, rm_path), rm_path)>>
          ELSE <<>>)

\* The archive a sequence of steps ends in
EndOf(m, states) == IF states = <<>> THEN m ELSE states[Len(states)]

\* The steps of add_file followed by those of remove_file
add_then_remove(m, added, rm_path) ==
    added \o remove_file_states(EndOf(m, added), rm_path)

\* The steps of remove_file followed by those of add_file
remove_then_add(m, removed, src, target_path) ==
    removed \o add_file_states(EndOf(m, removed), src, target_path)

\* An update_file that removes the old file before it writes the new one.
update_file_states_removing_first(m, dm, new_path, source_file) ==
    IF dm.data_path = ""
    THEN <<>>
    ELSE
    LET path_has_changed == new_path # dm.data_path
        checksum_has_changed ==
            /\ source_file # NoSrc
            /\ dm.data_checksum
                 # DataElement_update_checksum(dm, source_file).data_checksum
    IN CASE ~path_has_changed /\ ~checksum_has_changed -> <<>>
         [] ~path_has_changed /\ checksum_has_changed ->
              add_file_states(m, source_file, new_path)
         [] path_has_changed /\ ~checksum_has_changed ->
              move_file_states(m, dm.data_path, new_path)
         [] OTHER ->
              remove_then_add(m, remove_file_states(m, Pre(dm.data_path)),
                              source_file, new_path)

\* DataElement.update_file, call by call: the archive after each storage
\* call, in the order of the calls of update_file
update_file_states(m, dm, new_path, source_file) ==
    IF dm.data_path = ""
    THEN <<>>
    ELSE
    LET path_has_changed == new_path # dm.data_path
        checksum_has_changed ==
            /\ source_file # NoSrc
            /\ dm.data_checksum
                 # DataElement_update_checksum(dm, source_file).data_checksum
    IN CASE ~path_has_changed /\ ~checksum_has_changed -> <<>>
         [] ~path_has_changed /\ checksum_has_changed ->
              add_file_states(m, source_file, new_path)
         [] path_has_changed /\ ~checksum_has_changed ->
              move_file_states(m, dm.data_path, new_path)
         [] OTHER ->
              add_then_remove(m, add_file_states(m, source_file, new_path),
                              Pre(dm.data_path))

\* The file attributes of a data entity as update_element hands them to
\* DataElement
FileAttrs(group) ==
    [data_path |-> group.data_path, data_checksum |-> group.data_checksum]

\* update_element stopped after the i-th storage call of update_file: the
\* metadata has not been written yet
update_stopped(m, states, calls, i) == Stopped(states[i], SubSeq(calls, 1, i))

UpdateStopped ==
    \E k \in ElemKeys : \E new \in Records(k) : \E src \in SourcesFor(k) :
      /\ Opened(modo)
      /\ modo.view[k].type = "DataEntity"
      /\ isinstance_of_element(new, modo.view[k])
      /\ \E i \in 1..Len(update_file(modo, FileAttrs(modo.view[k]),
                                     new.data_path, src).calls) :
           Call("update_stopped", k, new, src, NoId,
                update_stopped(modo,
                               update_file_states(modo, FileAttrs(modo.view[k]),
                                                  new.data_path, src),
                               update_file(modo, FileAttrs(modo.view[k]),
                                           new.data_path, src).calls,
                               i))


\* del self.zarr[element_id]: the group and its members leave the store
del_group(m, element_id) ==
    [ m EXCEPT
        !.store = Cleared(@, {k \in ElemKeys : Below(element_id, k)}),
        !.containers = IF element_id.n = "" THEN @ \ {element_id.t} ELSE @ ]

\* The writes that clear the links to element_id in the groups of S, each
\* made through a fresh handle on the consolidated attributes
clear_links(m, element_id, S) ==
    [ m EXCEPT !.store =
        [ k \in ElemKeys |->
            IF k \in S THEN ClearLinks(m.view[k], element_id) ELSE m.store[k] ] ]

\* remove_element from the deletion of the group on, stopped after one of
\* its steps: m1 is the archive after the file removal, m2 after the
\* deletion of the group, linking the groups whose links are cleared.  The
\* loop visits the groups in the order of the keys of the view; a stop in
\* the loop leaves some of them written.
remove_stops_after(m1, c1, m2, element_id, linking) ==
    (IF c1 # <<>> THEN {Stopped(m1, c1)} ELSE {})
      \cup {Stopped(m2, c1 \o <<"del_group">>)}
      \cup (IF HitKeys(m2.root, element_id) # {}
            THEN {}
            ELSE { Stopped(clear_links(m2, element_id, S),
                           c1 \o <<"del_group">>
                              \o [i \in 1..Cardinality(S) |-> "set_attrs"])
                     : S \in SUBSET linking \ {{}} }
                 \cup { Stopped(clear_links(m2, element_id, linking),
                                c1 \o <<"del_group">>
                                   \o [i \in 1..Cardinality(linking) |-> "set_attrs"]
                                   \o <<"update_date">>) })

\* The groups of the view that hold element_id in a has-part list
linking_groups(m, element_id) ==
    {k \in metadata_keys(m) : HitKeys(m.view[k], element_id) # {}}

\* remove_element after its file removal
remove_stops_from(m1, c1, element_id) ==
    remove_stops_after(m1, c1, del_group(m1, element_id), element_id,
                       linking_groups(del_group(m1, element_id), element_id))

\* A remove_element whose first step deletes the element group and
\* consolidates the metadata, before the file is removed.
remove_element_stops_group_first(m, element_id) ==
    IF ~zarr_contains(m, element_id)
    THEN {}
    ELSE { Stopped(consolidate_metadata(del_group(m, element_id)),
                   <<"remove">>) }

\* MODO.remove_element stopped between two of its steps: the outcomes
remove_element_stops(m, element_id) ==
    IF ~zarr_contains(m, element_id)
    THEN {}
    ELSE IF element_id.n # "" /\ m.view[element_id].data_path # ""
    THEN remove_stops_from(remove(m, Pre(m.view[element_id].data_path)),
                           <<"remove">>, element_id)
    ELSE remove_stops_from(m, <<>>, element_id)

RemoveStopped ==
    \E k \in RemoveIds :
      \E r \in remove_element_stops(modo, k) :
        Opened(modo) /\ Call("remove_stopped", k, NoOp.new, NoSrc, NoId, r)

\* remove_element called again with the id of a remove_element that stopped:
\* the call records the archive the first call started from and the steps
\* the first call had made.
RemoveAgain ==
    /\ last.op = "remove_stopped"
    /\ Call("remove_again", last.id, [before |-> prev, made |-> last.calls],
            NoSrc, NoId, remove_element(modo, last.id))

\* The file copy failing at its j-th storage call: the calls before it
\* were made
copy_fails(m, states) ==
    { Stopped(IF j = 1 THEN m ELSE states[j - 1], [i \in 1..(j - 1) |-> "put"])
        : j \in 1..Len(states) }

\* The link of a new element written to its parent, when there is one to
\* write
link_written(m, e, part_of) ==
    IF part_of = NoId \/ ~m.view[part_of].present
    THEN m
    ELSE [m EXCEPT !.store[part_of] =
            set_haspart_relationship(ClassOf(e.t), K(e.t, e.n),
                                     m.view[part_of]).g]

\* An add_element that links the element to its parent before it copies
\* the file.
add_element_stops_linking_first(m, e, source_file, part_of) ==
    IF e.n \in metadata_names(m) \/ source_file = NoSrc \/ e.t # "data"
    THEN {}
    ELSE copy_fails(link_written(m, e, part_of),
                    add_file_states(link_written(m, e, part_of), source_file,
                                    e.data_path))

\* MODO._add_any_element stopped by a failure of the file copy: the
\* outcomes
add_element_stops(m, e, source_file, part_of) ==
    IF e.n \in metadata_names(m) \/ source_file = NoSrc \/ e.t # "data"
    THEN {}
    ELSE copy_fails(m, add_file_states(m, source_file, e.data_path))

AddStopped ==
    \E k \in ElemKeys : \E e \in NewRecords(k) : \E src \in SourcesFor(k) :
      \E part_of \in NewParents(k) :
        \E r \in add_element_stops(modo, e, src, part_of) :
          Opened(modo) /\ Call("add_stopped", k, e, src, part_of, r)

NextSteps ==
    \/ AddElement
    \/ AddStopped
    \/ UpdateStopped
    \/ RemoveStopped
    \/ RemoveAgain

SpecSteps == Init /\ [][NextSteps]_vars


\* The last call was an update_element that stopped in update_file with
\* both the path and the content changed, on an element whose file was in
\* the backend
BothChanged ==
    /\ last.op = "update_stopped"
    /\ last.new.data_path # prev.view[last.id].data_path
    /\ last.source_file # NoSrc
    /\ compute_checksum(last.source_file.c) # prev.view[last.id].data_checksum
    /\ prev.files[prev.view[last.id].data_path] # NoFile

\* C31: in every state update_file can stop in between two of its storage
\* calls, the file of the element is in the backend at the old path or at
\* the new path; when both path and content changed, the old file is gone
\* only once the new file holds the bytes of the source.
C31_DataKeptDuringUpdate ==
    last.op = "update_stopped" /\ prev.files[prev.view[last.id].data_path] # NoFile
      => /\ \/ modo.files[prev.view[last.id].data_path] # NoFile
            \/ modo.files[last.new.data_path] # NoFile
         /\ BothChanged /\ modo.files[prev.view[last.id].data_path] = NoFile
              => modo.files[last.new.data_path] = last.source_file.c

C31_Witness ==
    /\ BothChanged
    /\ modo.files[prev.view[last.id].data_path] = NoFile
    /\ modo.files[last.new.data_path] = last.source_file.c

\* C32 as stated: while update_file runs with both path and content
\* changed, at most one of the file at the old path and the file at the new
\* path is in the backend.
C32_AtMostOneFile ==
    BothChanged
      => ~ /\ modo.files[prev.view[last.id].data_path] # NoFile
           /\ modo.files[last.new.data_path] # NoFile

\* C32: while update_file runs with both path and content changed, the new
\* file is written first: until the removal of the old file is called both
\* files are in the backend, and from then on the new file is.
C32_BothUntilOldRemoved ==
    BothChanged
      => /\ modo.files[last.new.data_path] = last.source_file.c
         /\ ~InSeq("remove", last.calls)
              => modo.files[prev.view[last.id].data_path]
                   = prev.files[prev.view[last.id].data_path]

C32_Witness ==
    /\ BothChanged
    /\ last.calls = <<"put">>
    /\ modo.files[prev.view[last.id].data_path] # NoFile
    /\ modo.files[last.new.data_path] = last.source_file.c

\* C33: an add_element whose file copy fails has written no metadata: no
\* element group was created, no has-part attribute of a parent was
\* changed, the update date was not touched.
C33_FailedCopyWritesNoMetadata ==
    last.op = "add_stopped"
      => /\ modo.store = prev.store
         /\ modo.view = prev.view
         /\ modo.root = prev.root
         /\ modo.containers = prev.containers
         /\ \A i \in 1..Len(last.calls) : last.calls[i] = "put"

C33_Witness ==
    /\ last.op = "add_stopped"
    /\ last.calls = <<"put">>
    /\ modo.files[last.new.data_path] = last.source_file.c
    /\ last.part_of # NoId
    /\ prev.view[last.part_of].present
    /\ set_haspart_relationship(ClassOf(last.new.t), last.id,
                                prev.view[last.part_of]).err = ""

\* C34: in no state remove_element can stop in is there an element group
\* whose data_path names a file that this remove_element has deleted.
C34_NoGroupOfDeletedFile ==
    last.op = "remove_stopped"
      => \A k \in ElemKeys :
            modo.store[k].present /\ modo.store[k].data_path # ""
              => ~ /\ prev.files[modo.store[k].data_path] # NoFile
                   /\ modo.files[modo.store[k].data_path] = NoFile

\* C35: remove_element called again after a remove_element of the same id
\* that stopped right after its file removal returns without an error and
\* leaves the archive an uninterrupted remove_element leaves.
C35_RemoveAgain ==
    last.op = "remove_again" /\ last.new.made = <<"remove">>
      => /\ last.err = ""
         /\ modo = remove_element(last.new.before, last.id).m

C35_Witness ==
    /\ last.op = "remove_again" /\ last.new.made = <<"remove">>
    /\ last.err = ""
    /\ \E p \in Paths : last.new.before.files[p] # NoFile /\ prev.files[p] = NoFile
    /\ ~modo.view[last.id].present

====
